---- MODULE Spec2Model ----
(***************************************************************************)
(* Model of Suno_Downloader_Wav.py: the identity scan of an Audio folder,  *)
(* the base-filename allocation loop of SunoDownloader.download_worker,    *)
(* the per-clip MP3 / retag processing that changes the Audio folder, the  *)
(* byte-level RIFF INFO rewrite of a WAV file, the FULL and FILL_MISSING   *)
(* tag calls on one audio file, and the file-by-file walk of the scan.     *)
(*                                                                         *)
(* File names and titles are sequences of characters; a clip identifier    *)
(* (a UUID string) is one token of such a sequence.  File contents of a    *)
(* WAV are sequences of bytes 0..255.                                      *)
(***************************************************************************)
EXTENDS Integers, Sequences, FiniteSets, TLC

VARIABLES
    dir,            \* the Audio folder: set of [stem, ext, cid] audio files
    pc,             \* position of download_worker
    mode,           \* the option toggles of the current run
    budget,         \* input lines the model may still process
    clips,          \* clips of the current input line: [id, title, base]
    existing_by_id, \* identity index of the current line's scan
    version_seed,   \* version seed of the current line's scan
    versions,       \* the allocation loop's counters (copy of the seed)
    idx,            \* loop position (allocation loop, then processing loop)
    issued,         \* history: <<raw, n, id>> for each version issued in this run
    firstBase,      \* history: the base each identifier was first allocated
    wav_jobs,       \* out_wav bases queued for the WAV phase of this run
    did,            \* history: what the last step of the worker did
    wav,            \* bytes of the file at wav_path
    tmp,            \* bytes of the file at wav_path + ".tmp", or NoFile
    rpc,            \* position of _rewrite_wav_remove_info_and_append
    srcPos,         \* read offset of src
    info,           \* the info_chunk argument of the rewrite in progress
    orig,           \* history: bytes of wav_path when the rewrite began
    rewrites,       \* rewrites begun so far
    tfile,          \* the audio file a tag call works on: [kind, hdr, frames, atime, mtime]
    tpc,            \* position of the tag call in progress
    id3,            \* the tag object in memory (ID3 or FLAC tags)
    captured,       \* <<atime, mtime>> captured by os.stat, or NoTimes
    targ,           \* argument of the call: clip_id (fill) or the clip record (full)
    tret,           \* outcome of the last call: "none", "true", "false", "raised"
    tpre,           \* history: the file when the call began
    tsaves,         \* history: saves that succeeded during the call
    tcalls,         \* tag calls begun so far
    utime,          \* history: os.utime in the finally block: "none", "ok", "failed"
    tinfo,          \* the info dict written to a WAV by the call: <<>> or <<info>>
    flac_available, \* FLAC_AVAILABLE, as the scan sees it
    sglob,          \* history: a glob of the scan raised
    sfiles,         \* the files glob() yields to scan_audio_dir_ids, in order
    spos,           \* position of the scan in sfiles
    sindex,         \* existing_by_id under construction
    sstems,         \* stems under construction
    sseed,          \* version_seed as the scan returned it
    sret,           \* outcome of the scan: "none", "running", "returned", "raised"
    stop_event,     \* self.stop_event is set
    pause_event,    \* self.pause_event is set
    cpc,            \* position of download_worker between the flag checks
    lines,          \* the input lines of the run, by what they resolve to
    copts,          \* the options of the run: [wav, index]
    line_i,         \* position of the "for line in lines" loop in progress
    cclips,         \* clips of the current line: [id, base]
    clip_i,         \* position of the processing loop in cclips
    all_clips,      \* len(all_clips)
    jobs,           \* wav_jobs: [id, out_wav]
    job_i,          \* position of the WAV loop in jobs
    cfiles,         \* files the run has written to the Audio folder: [stem, ext]
    cdid,           \* history: what the worker's last step did
    cobs,           \* history: positions at which the worker has read a flag
    clog,           \* history: clips, index updates, WAV saves and errors, in order
    pressed         \* history: Stop was pressed while the worker was paused

workerVars == <<dir, pc, mode, budget, clips, existing_by_id, version_seed,
                versions, idx, issued, firstBase,
                wav_jobs, did>>
riffVars == <<wav, tmp, rpc, srcPos, info, orig, rewrites>>
tagVars == <<tfile, tpc, id3, captured, targ, tret, tpre, tsaves, tcalls,
             utime, tinfo>>
scanVars == <<sfiles, spos, sindex, sstems, sret, flac_available, sglob,
              sseed>>
ctlVars == <<stop_event, pause_event, cpc, lines, copts, line_i, cclips,
             clip_i, all_clips, jobs, job_i, cfiles, cdid, cobs, clog, pressed>>
vars == <<dir, pc, mode, budget, clips, existing_by_id, version_seed,
          versions, idx, issued, firstBase, wav_jobs, did,
          wav, tmp, rpc, srcPos, info, orig, rewrites,
          tfile, tpc, id3, captured, targ, tret, tpre, tsaves, tcalls, utime,
          tinfo,
          flac_available, sglob,
          sfiles, spos, sindex, sstems, sret, sseed,
          stop_event, pause_event, cpc, lines, copts, line_i, cclips, clip_i,
          all_clips, jobs, job_i, cfiles, cdid, cobs, clog, pressed>>

(***************************************************************************)
(* Bounds of the model.                                                    *)
(***************************************************************************)
MaxLines == 2
MaxChunks == 2
MaxRewrites == 2
MaxCalls == 2
MaxFiles == 2

(***************************************************************************)
(* Characters, names and the conversions between names and versions.       *)
(***************************************************************************)
NoId == ""
Ids == {"a", "b", "z"}
NoBase == <<>>
Nil == <<"nil">>

IllegalChars == {"\\", "/", ":", "*", "?", "\"", "<", ">", "|"}
Whitespace == {" "}
DigitChars == <<"0", "1", "2", "3", "4", "5", "6", "7", "8", "9">>
IsDigit(c) == \E d \in 1..10 : DigitChars[d] = c
DigitValue(c) == (CHOOSE d \in 1..10 : DigitChars[d] = c) - 1

\* sanitize(name): drop the characters that are illegal in file names
sanitize(name) == SelectSeq(name, LAMBDA c : c \notin IllegalChars)

RECURSIVE lstrip(_)
lstrip(s) == IF s # <<>> /\ Head(s) \in Whitespace THEN lstrip(Tail(s)) ELSE s

RECURSIVE rstrip(_)
rstrip(s) ==
    IF s # <<>> /\ s[Len(s)] \in Whitespace
    THEN rstrip(SubSeq(s, 1, Len(s) - 1))
    ELSE s

\* str.strip()
strip(s) == rstrip(lstrip(s))

\* str(n) for n >= 0
RECURSIVE IntToStr(_)
IntToStr(n) ==
    IF n < 10 THEN <<DigitChars[n + 1]>>
    ELSE IntToStr(n \div 10) \o <<DigitChars[(n % 10) + 1]>>

\* int(s) for a non-empty digit string (leading zeros allowed)
RECURSIVE StrToInt(_)
StrToInt(s) ==
    IF s = <<>> THEN 0
    ELSE 10 * StrToInt(SubSeq(s, 1, Len(s) - 1)) + DigitValue(s[Len(s)])

\* f"{raw} V{cnt}"
FormatBase(raw, cnt) == raw \o <<" ", "V">> \o IntToStr(cnt)

\* number of digit characters at the end of s
RECURSIVE TrailingDigits(_)
TrailingDigits(s) ==
    IF s # <<>> /\ IsDigit(s[Len(s)])
    THEN 1 + TrailingDigits(SubSeq(s, 1, Len(s) - 1))
    ELSE 0

\* re.compile(r"^(.*)\s+V(\d+)$", re.IGNORECASE).match(stem): the digits are
\* the whole trailing digit run, "V"/"v" stands right before it, and the
\* greedy group leaves exactly one whitespace character to \s+
MverMatches(stem) ==
    LET k == TrailingDigits(stem) IN
        /\ k >= 1
        /\ Len(stem) >= k + 2
        /\ stem[Len(stem) - k] \in {"V", "v"}
        /\ stem[Len(stem) - k - 1] \in Whitespace
MverRaw(stem) == SubSeq(stem, 1, Len(stem) - TrailingDigits(stem) - 2)
MverVersion(stem) ==
    StrToInt(SubSeq(stem, Len(stem) - TrailingDigits(stem) + 1, Len(stem)))

Max(S) == CHOOSE m \in S : \A x \in S : x <= m

(***************************************************************************)
(* scan_audio_dir_ids.  A file's cid is what mp3_extract_clip_id or        *)
(* flac_extract_clip_id returns for it (NoId for None).                    *)
(***************************************************************************)
Carriers(d, id) == {f \in d : f.cid = id}
CarrierStems(d, id) == {f.stem : f \in Carriers(d, id)}
IndexedIds(d) == {id \in Ids : Carriers(d, id) # {}}

\* the stems list: the stem of every file an identifier was read from
ScanStems(d) == {f.stem : f \in {g \in d : g.cid # NoId}}

\* a scan that seeds no versions
VersionSeedEmpty(d) == [r \in {} |-> 0]

\* the version_seed dictionary: per raw the largest version, entries only
\* where a version above the default 0 was seen
VersionSeedOf(d) ==
    LET matching == {s \in ScanStems(d) : MverMatches(s) /\ MverVersion(s) > 0}
        raws == {MverRaw(s) : s \in matching}
    IN  [r \in raws |->
            Max({MverVersion(s) : s \in {t \in matching : MverRaw(t) = r}})]

\* The entries existing_by_id can hold for id.  glob() yields the files in
\* an order the file system chooses: the first *.mp3 carrying id gives base
\* and mp3 (else the first *.flac gives base), the last *.flac gives flac.
IndexEntries(d, id) ==
    LET M == {f \in Carriers(d, id) : f.ext = "mp3"}
        F == {f \in Carriers(d, id) : f.ext = "flac"}
    IN  IF M # {}
        THEN {[base |-> m.stem, mp3 |-> m.stem, flac |-> fl] :
                 m \in M, fl \in (IF F = {} THEN {Nil} ELSE {f.stem : f \in F})}
        ELSE {[base |-> e[1].stem, mp3 |-> Nil, flac |-> e[2].stem] :
                 e \in {p \in F \X F : Cardinality(F) = 1 \/ p[1] # p[2]}}

ScanOutcomes(d) ==
    {ix \in [IndexedIds(d) -> UNION {IndexEntries(d, id) : id \in IndexedIds(d)}] :
        \A id \in IndexedIds(d) : ix[id] \in IndexEntries(d, id)}

(***************************************************************************)
(* unique_clips_by_id and the allocation of one clip                       *)
(* (download_worker, the first "for clip in clips" loop).                  *)
(***************************************************************************)
RECURSIVE UniqueFrom(_, _)
UniqueFrom(cs, seen) ==
    IF cs = <<>> THEN <<>>
    ELSE IF Head(cs).id # NoId /\ Head(cs).id \in seen
         THEN UniqueFrom(Tail(cs), seen)
         ELSE <<Head(cs)>> \o UniqueFrom(Tail(cs), (seen \cup {Head(cs).id}) \ {NoId})
unique_clips_by_id(cs) == UniqueFrom(cs, {})

\* versions.get(raw, 0)
VersionOf(vers, raw) == IF raw \in DOMAIN vers THEN vers[raw] ELSE 0

\* raw = sanitize(title).strip(), else sanitize(clip_id or "Untitled").strip()
\* or "Untitled"
AllocRaw(id, title) ==
    LET t == strip(sanitize(title)) IN
    IF t # <<>> THEN t
    ELSE LET u == strip(sanitize(IF id # NoId THEN <<id>> ELSE <<"Untitled">>)) IN
         IF u # <<>> THEN u ELSE <<"Untitled">>

\* clip_id and clip_id in existing_by_id and existing_by_id[clip_id].get("base")
InIndex(id, index) ==
    id # NoId /\ id \in DOMAIN index /\ index[id].base # NoBase

\* Allocate with the index lookup left out
AllocateAlwaysFresh(id, title, index, vers) ==
    LET raw == AllocRaw(id, title)
        cnt == VersionOf(vers, raw) + 1
    IN  [base |-> FormatBase(raw, cnt),
         versions |-> [r \in DOMAIN vers \cup {raw} |->
                          IF r = raw THEN cnt ELSE vers[r]],
         fresh |-> TRUE]

\* Allocate with the counter bumped before the index lookup
AllocateBumpsCounter(id, title, index, vers) ==
    LET raw == AllocRaw(id, title)
        cnt == VersionOf(vers, raw) + 1
        bumped == [r \in DOMAIN vers \cup {raw} |->
                      IF r = raw THEN cnt ELSE vers[r]]
    IN  IF InIndex(id, index)
        THEN [base |-> index[id].base, versions |-> bumped, fresh |-> FALSE]
        ELSE [base |-> FormatBase(raw, cnt), versions |-> bumped, fresh |-> TRUE]

\* Allocate with the new count not stored back
AllocateForgetsCounter(id, title, index, vers) ==
    IF InIndex(id, index)
    THEN [base |-> index[id].base, versions |-> vers, fresh |-> FALSE]
    ELSE LET raw == AllocRaw(id, title)
             cnt == VersionOf(vers, raw) + 1
         IN  [base |-> FormatBase(raw, cnt),
              versions |-> [r \in DOMAIN vers \cup {raw} |->
                               IF r = raw THEN VersionOf(vers, raw) ELSE vers[r]],
              fresh |-> TRUE]

Allocate(id, title, index, vers) ==
    IF InIndex(id, index)
    THEN [base |-> index[id].base, versions |-> vers, fresh |-> FALSE]
    ELSE LET raw == AllocRaw(id, title)
             cnt == VersionOf(vers, raw) + 1
         IN  [base |-> FormatBase(raw, cnt),
              versions |-> [r \in DOMAIN vers \cup {raw} |->
                               IF r = raw THEN cnt ELSE vers[r]],
              fresh |-> TRUE]

(***************************************************************************)
(* The inputs of the model: what the Audio folder holds before the first   *)
(* run, and what the metadata service returns for an input line.           *)
(***************************************************************************)
File(stem, ext, cid) == [stem |-> stem, ext |-> ext, cid |-> cid]

\* the files a folder may hold before the first run
fSV1b == File(<<"S", " ", "V", "1">>, "mp3", "b")
fSV1none == File(<<"S", " ", "V", "1">>, "mp3", NoId)
fSV1a == File(<<"S", " ", "V", "1">>, "flac", "a")
fSv03z == File(<<"S", " ", "v", "0", "3">>, "flac", "z")
fS2V2a == File(<<"S", " ", " ", "V", "2">>, "mp3", "a")
fTa == File(<<"T">>, "mp3", "a")
fTb == File(<<"T">>, "flac", NoId)

InitDirs ==
    { {}, {fSV1b}, {fSV1none}, {fSv03z}, {fS2V2a}, {fTa},
      {fSV1b, fSV1a}, {fSV1none, fSV1a}, {fTa, fTb}, {fSV1b, fTa}, {fSV1a} }

\* the clips the service may return: a title that needs sanitizing and
\* stripping (raw "S"), and an empty title
FetchedClips ==
    { [id |-> "a", title |-> <<"?", "S", " ">>],
      [id |-> "a", title |-> <<>>],
      [id |-> "b", title |-> <<"?", "S", " ">>],
      [id |-> "b", title |-> <<>>],
      [id |-> NoId, title |-> <<>>] }
FetchResults ==
    {<<>>} \cup {<<c>> : c \in FetchedClips}
           \cup {<<c, e>> : c \in FetchedClips, e \in FetchedClips}

\* the option toggles a run is started with: do_index is do_pl_idx or
\* do_master, do_text is do_prompts, do_lyrics or do_genres
Options(audio, wav_, art, index, text, retag) ==
    [do_audio |-> audio, do_wav |-> wav_, do_art |-> art, do_index |-> index,
     do_text |-> text, retag_only |-> retag]
NoMode == Options(FALSE, FALSE, FALSE, FALSE, FALSE, FALSE)
\* the runs that decide file names: MP3 download and Retag Only on or off
Modes == {Options(a, FALSE, FALSE, FALSE, FALSE, r) : a \in BOOLEAN, r \in BOOLEAN}

\* runs with every toggle on, with and without Retag Only, Retag Only with
\* every other toggle off, and a run that only downloads WAVs
AllModes ==
    { Options(TRUE, TRUE, TRUE, TRUE, TRUE, FALSE),
      Options(TRUE, TRUE, TRUE, TRUE, TRUE, TRUE),
      Options(FALSE, FALSE, FALSE, FALSE, FALSE, TRUE),
      Options(FALSE, TRUE, FALSE, FALSE, FALSE, FALSE) }

\* a clip of the current line; fetched is the title as the service gave it
NewClip(c) ==
    [id |-> c.id, title |-> c.title, index_title |-> NoBase, fetched |-> c.title]

(***************************************************************************)
(* download_worker                                                         *)
(***************************************************************************)
Exists(d, stem, ext) == \E f \in d : f.stem = stem /\ f.ext = ext
FileAt(d, stem, ext) == CHOOSE f \in d : f.stem = stem /\ f.ext = ext
SetCid(d, stem, ext, cid) ==
    {IF f.stem = stem /\ f.ext = ext THEN File(stem, ext, cid) ELSE f : f \in d}

\* existing_by_id.get(clip_id, {}) if clip_id else no entry
EntryOf(id) ==
    IF id # NoId /\ id \in DOMAIN existing_by_id
    THEN existing_by_id[id]
    ELSE [base |-> NoBase, mp3 |-> Nil, flac |-> Nil]

\* the locals of one line iteration, before the line is fetched
NoLine ==
    /\ clips = <<>>
    /\ existing_by_id = <<>>
    /\ version_seed = <<>>
    /\ versions = <<>>
    /\ idx = 1

ResetLine ==
    /\ clips' = <<>>
    /\ existing_by_id' = <<>>
    /\ version_seed' = <<>>
    /\ versions' = <<>>
    /\ idx' = 1

StartRun ==
    /\ pc = "idle"
    /\ budget > 0
    /\ \E m \in Modes : mode' = m
    /\ pc' = "line"
    /\ issued' = {}
    /\ UNCHANGED <<dir, budget, clips, existing_by_id, version_seed, versions,
                   idx, firstBase>>
    /\ did' = {}
    /\ wav_jobs' = {}
    /\ UNCHANGED <<riffVars, tagVars, scanVars, ctlVars>>

\* a run started with any of the option sets
StartRunAnyOptions ==
    /\ pc = "idle"
    /\ budget > 0
    /\ \E m \in AllModes : mode' = m
    /\ pc' = "line"
    /\ issued' = {}
    /\ UNCHANGED <<dir, budget, clips, existing_by_id, version_seed, versions,
                   idx, firstBase>>
    /\ did' = {}
    /\ wav_jobs' = {}
    /\ UNCHANGED <<riffVars, tagVars, scanVars, ctlVars>>

\* one iteration of "for line in lines" up to the allocation loop: fetch,
\* unique_clips_by_id, scan_audio_dir_ids, versions = dict(version_seed)
NextLine ==
    /\ pc = "line"
    /\ budget > 0
    /\ \E cs \in FetchResults, ix \in ScanOutcomes(dir) :
          /\ clips' = [i \in 1..Len(unique_clips_by_id(cs)) |->
                          NewClip(unique_clips_by_id(cs)[i])]
          /\ existing_by_id' = ix
    /\ version_seed' = VersionSeedOf(dir)
    /\ versions' = VersionSeedOf(dir)
    /\ idx' = 1
    /\ pc' = IF clips' = <<>> THEN "proc" ELSE "alloc"
    /\ budget' = budget - 1
    /\ UNCHANGED <<dir, mode, issued, firstBase>>
    /\ did' = {}
    /\ UNCHANGED wav_jobs
    /\ UNCHANGED <<riffVars, tagVars, scanVars, ctlVars>>

\* extract_id or the metadata fetch raises: logged, "continue"
LineFails ==
    /\ pc = "line"
    /\ budget > 0
    /\ budget' = budget - 1
    /\ UNCHANGED <<dir, pc, mode, clips, existing_by_id, version_seed, versions,
                   idx, issued, firstBase>>
    /\ did' = {}
    /\ UNCHANGED wav_jobs
    /\ UNCHANGED <<riffVars, tagVars, scanVars, ctlVars>>

\* one iteration of the allocation loop; after the last clip the worker
\* enters the processing loop
AllocateClip ==
    /\ pc = "alloc"
    /\ idx <= Len(clips)
    /\ LET c == clips[idx]
           r == Allocate(c.id, c.title, existing_by_id, versions)
       IN  /\ clips' = [clips EXCEPT ![idx].index_title = r.base,
                                     ![idx].title = r.base]
           /\ versions' = r.versions
           /\ issued' = IF r.fresh
                        THEN issued \cup {<<AllocRaw(c.id, c.title),
                                            r.versions[AllocRaw(c.id, c.title)],
                                            c.id>>}
                        ELSE issued
           /\ firstBase' = IF c.id # NoId /\ firstBase[c.id] = NoBase
                           THEN [firstBase EXCEPT ![c.id] = r.base]
                           ELSE firstBase
    /\ IF idx = Len(clips)
       THEN pc' = "proc" /\ idx' = 1
       ELSE pc' = "alloc" /\ idx' = idx + 1
    /\ UNCHANGED <<dir, mode, budget, existing_by_id, version_seed>>
    /\ did' = {}
    /\ UNCHANGED wav_jobs
    /\ UNCHANGED <<riffVars, tagVars, scanVars, ctlVars>>

\* mp3_existing or (mp3_expected if os.path.exists(mp3_expected) else None),
\* as the stem of the target (Nil for None); likewise for FLAC
RetagTarget(c, ext) ==
    LET e == EntryOf(c.id)
        existing == IF ext = "mp3" THEN e.mp3 ELSE e.flac
    IN  IF existing # Nil THEN existing
        ELSE IF Exists(dir, c.index_title, ext) THEN c.index_title ELSE Nil

\* The identifier a file carries after retag_*_fill_missing_preserve_timestamps:
\* the clip's when the identifier frames were absent and were added, the old
\* one when an identifier frame was already present.
RetagCids(d, stem, ext, id) ==
    IF stem = Nil THEN {NoId} ELSE {FileAt(d, stem, ext).cid, id}

\* retag_only branch of the processing loop, both retag calls returning
ProcessRetag ==
    /\ pc = "proc"
    /\ idx <= Len(clips)
    /\ mode.retag_only
    /\ LET c == clips[idx]
           m == RetagTarget(c, "mp3")
           f == RetagTarget(c, "flac")
       IN  IF c.id = NoId THEN dir' = dir
           ELSE \E c1 \in RetagCids(dir, m, "mp3", c.id),
                   c2 \in RetagCids(dir, f, "flac", c.id) :
                   dir' = SetCid(SetCid(dir, m, "mp3", c1), f, "flac", c2)
    /\ idx' = idx + 1
    /\ UNCHANGED <<pc, mode, budget, clips, existing_by_id, version_seed,
                   versions, issued, firstBase>>
    /\ did' = IF clips[idx].id # NoId
                  /\ (RetagTarget(clips[idx], "mp3") # Nil
                         \/ RetagTarget(clips[idx], "flac") # Nil)
               THEN {"fill"} ELSE {}
    /\ UNCHANGED wav_jobs
    /\ UNCHANGED <<riffVars, tagVars, scanVars, ctlVars>>

\* retag_only branch, ID3(path) or FLAC(path) raising on a file whose tags
\* cannot be read: the exception leaves the line ("except Exception: continue")
RetagRaises ==
    /\ pc = "proc"
    /\ idx <= Len(clips)
    /\ mode.retag_only
    /\ clips[idx].id # NoId
    /\ LET c == clips[idx]
           m == RetagTarget(c, "mp3")
           f == RetagTarget(c, "flac")
       IN  \E ext \in {"mp3", "flac"} :
              IF ext = "mp3"
              THEN /\ m # Nil
                   /\ FileAt(dir, m, "mp3").cid = NoId
                   /\ dir' = dir
              ELSE /\ f # Nil
                   /\ FileAt(dir, f, "flac").cid = NoId
                   /\ \E c1 \in RetagCids(dir, m, "mp3", c.id) :
                         dir' = SetCid(dir, m, "mp3", c1)
    /\ pc' = "line"
    /\ ResetLine
    /\ UNCHANGED <<mode, budget, issued, firstBase>>
    /\ did' = {"fill"}
    /\ UNCHANGED wav_jobs
    /\ UNCHANGED <<riffVars, tagVars, scanVars, ctlVars>>

\* a worker that downloads audio in a Retag Only run as well
effective_do_audio_ignores_retag == mode.do_audio

\* effective_do_audio = bool(do_audio) and not retag_only
effective_do_audio == mode.do_audio /\ ~mode.retag_only

\* effective_do_wav = bool(do_wav) and not retag_only
effective_do_wav == mode.do_wav /\ ~mode.retag_only

\* the two "[DUP] ... skip" tests before save_mp3
SkipMp3(c) ==
    LET e == EntryOf(c.id)
        already == InIndex(c.id, existing_by_id) /\ (e.mp3 # Nil \/ e.flac # Nil)
    IN  \/ already /\ e.mp3 # Nil /\ Exists(dir, e.mp3, "mp3")
        \/ Exists(dir, c.index_title, "mp3")

\* need_thumb or need_cover, apart from the artwork the clip already has
NeedArt == mode.do_art \/ mode.do_index \/ effective_do_audio \/ effective_do_wav

\* download_image is called ("art") or not: the clip may lack an image URL
\* or have its artwork on disk
ArtEffects == IF NeedArt THEN {{}, {"art"}} ELSE {{}}

\* save_txt for prompts, lyrics and genres
TxtEffects == IF mode.do_text THEN {"txt"} ELSE {}

\* "if effective_do_wav and clip_id: if not os.path.exists(wav_expected)"
QueuesWav(c) ==
    effective_do_wav /\ c.id # NoId /\ ~Exists(dir, c.index_title, "wav")

\* the download branch apart from the MP3: artwork, text files, WAV job
RestOfClip(c, mp3Effects) ==
    /\ \E art \in ArtEffects :
          did' = art \cup mp3Effects \cup TxtEffects
                     \cup (IF QueuesWav(c) THEN {"wavjob"} ELSE {})
    /\ wav_jobs' = IF QueuesWav(c) THEN wav_jobs \cup {c.index_title} ELSE wav_jobs

\* download branch: no MP3 is written (audio off, duplicate, or save_mp3
\* returned None)
ProcessNoMp3 ==
    /\ pc = "proc"
    /\ idx <= Len(clips)
    /\ ~mode.retag_only
    /\ RestOfClip(clips[idx], {})
    /\ idx' = idx + 1
    /\ UNCHANGED <<dir, pc, mode, budget, clips, existing_by_id, version_seed,
                   versions, issued, firstBase>>
    /\ UNCHANGED <<riffVars, tagVars, scanVars, ctlVars>>

\* download branch: save_mp3 writes <file_base>.mp3 and
\* embed_tags_full_rewrite_mp3 tags it (a tagging failure is swallowed and
\* leaves the file without identifier)
ProcessSaveMp3 ==
    /\ pc = "proc"
    /\ idx <= Len(clips)
    /\ effective_do_audio
    /\ ~SkipMp3(clips[idx])
    /\ \E cid \in {clips[idx].id, NoId} :
          dir' = dir \cup {File(clips[idx].index_title, "mp3", cid)}
    /\ RestOfClip(clips[idx], {"mp3", "full_tag"})
    /\ idx' = idx + 1
    /\ UNCHANGED <<pc, mode, budget, clips, existing_by_id, version_seed,
                   versions, issued, firstBase>>
    /\ UNCHANGED <<riffVars, tagVars, scanVars, ctlVars>>

\* end of one line iteration; its locals are dead from here on
ProcDone ==
    /\ pc = "proc"
    /\ idx > Len(clips)
    /\ pc' = "line"
    /\ ResetLine
    /\ UNCHANGED <<dir, mode, budget, issued, firstBase>>
    /\ did' = {}
    /\ UNCHANGED wav_jobs
    /\ UNCHANGED <<riffVars, tagVars, scanVars, ctlVars>>

\* "for line in lines" is exhausted: the WAV phase downloads the queued jobs
\* (or Playwright is missing or fails), then the run ends
FinishRun ==
    /\ pc = "line"
    /\ pc' = "idle"
    /\ mode' = NoMode
    /\ IF effective_do_wav /\ wav_jobs # {}
       THEN \E ok \in BOOLEAN :
               /\ dir' = IF ok
                         THEN dir \cup {File(b, "wav", NoId) : b \in wav_jobs}
                         ELSE dir
               /\ did' = IF ok THEN {"wav"} ELSE {}
       ELSE /\ dir' = dir
            /\ did' = {}
    /\ wav_jobs' = {}
    /\ UNCHANGED <<budget, clips, existing_by_id, version_seed,
                   versions, idx, issued, firstBase>>
    /\ UNCHANGED <<riffVars, tagVars, scanVars, ctlVars>>

NoFile == <<-1>>

RiffIdle ==
    /\ wav = <<>>
    /\ tmp = NoFile
    /\ rpc = "idle"
    /\ srcPos = 0
    /\ info = <<>>
    /\ orig = <<>>
    /\ rewrites = 0

NoTimes == <<>>
NoTagFile == [kind |-> "none"]

TagIdle ==
    /\ tfile = NoTagFile
    /\ tpc = "idle"
    /\ id3 = <<>>
    /\ captured = NoTimes
    /\ targ = <<>>
    /\ tret = "none"
    /\ tpre = NoTagFile
    /\ tsaves = 0
    /\ tcalls = 0
    /\ utime = "none"
    /\ tinfo = <<>>

ScanIdle ==
    /\ sfiles = <<>>
    /\ spos = 1
    /\ sindex = <<>>
    /\ sstems = <<>>
    /\ sseed = <<>>
    /\ sret = "none"
    /\ flac_available = TRUE
    /\ sglob = FALSE

\* no run has been started from the window
CtlIdle ==
    /\ stop_event = FALSE
    /\ pause_event = FALSE
    /\ cpc = "idle"
    /\ lines = <<>>
    /\ copts = [wav |-> FALSE, index |-> FALSE]
    /\ line_i = 1
    /\ cclips = <<>>
    /\ clip_i = 1
    /\ all_clips = 0
    /\ jobs = <<>>
    /\ job_i = 1
    /\ cfiles = {}
    /\ cdid = "none"
    /\ cobs = {}
    /\ clog = <<>>
    /\ pressed = FALSE

Init ==
    /\ dir \in InitDirs
    /\ pc = "idle"
    /\ mode = NoMode
    /\ budget = MaxLines
    /\ NoLine
    /\ issued = {}
    /\ firstBase = [id \in Ids |-> NoBase]
    /\ wav_jobs = {}
    /\ did = {}
    /\ RiffIdle
    /\ TagIdle
    /\ ScanIdle
    /\ CtlIdle

Next ==
    \/ StartRun
    \/ NextLine
    \/ LineFails
    \/ AllocateClip
    \/ ProcessRetag
    \/ RetagRaises
    \/ ProcessNoMp3
    \/ ProcessSaveMp3
    \/ ProcDone
    \/ FinishRun

Spec == Init /\ [][Next]_vars

\* folders for the runs with every toggle: empty, and a FLAC without its MP3
RunDirs == { {}, {fSV1a} }

InitRun ==
    /\ Init
    /\ dir \in RunDirs

NextRun ==
    \/ StartRunAnyOptions
    \/ NextLine
    \/ LineFails
    \/ AllocateClip
    \/ ProcessRetag
    \/ RetagRaises
    \/ ProcessNoMp3
    \/ ProcessSaveMp3
    \/ ProcDone
    \/ FinishRun

SpecRun == InitRun /\ [][NextRun]_vars

(***************************************************************************)
(* RIFF INFO rewriting: bytes, the INFO chunk and the streaming rewrite.   *)
(***************************************************************************)
Min(a, b) == IF a < b THEN a ELSE b

\* four-character codes as bytes
RIFF == <<82, 73, 70, 70>>
WAVE == <<87, 65, 86, 69>>
LIST == <<76, 73, 83, 84>>
INFO == <<73, 78, 70, 79>>
FMT == <<102, 109, 116, 32>>
DATA == <<100, 97, 116, 97>>
ADTL == <<97, 100, 116, 108>>

\* struct.pack("<I", n) and struct.unpack("<I", b)[0]
LE32(n) ==
    <<n % 256, (n \div 256) % 256, (n \div 65536) % 256, (n \div 16777216) % 256>>
UnLE32(b) == b[1] + 256 * b[2] + 65536 * b[3] + 16777216 * b[4]

\* f.read(n) at offset pos: up to n bytes, fewer at the end of the file
ReadAt(f, pos, n) == SubSeq(f, pos + 1, Min(pos + n, Len(f)))

\* s.encode("utf-8") of a string given as code points (below 65536)
RECURSIVE Utf8(_)
Utf8(s) ==
    IF s = <<>> THEN <<>>
    ELSE LET cp == Head(s)
             b == IF cp < 128 THEN <<cp>>
                  ELSE IF cp < 2048
                       THEN <<192 + (cp \div 64), 128 + (cp % 64)>>
                       ELSE <<224 + (cp \div 4096), 128 + ((cp \div 64) % 64),
                              128 + (cp % 64)>>
         IN  b \o Utf8(Tail(s))

\* _riff_info_pack_string
riff_info_pack_string(s) == Utf8(s) \o <<0>>

\* the mapping of _make_riff_info_chunk, in its iteration order
InfoTags ==
    << [key |-> "title", cid |-> <<73, 78, 65, 77>>],
       [key |-> "album", cid |-> <<73, 80, 82, 68>>],
       [key |-> "track", cid |-> <<73, 84, 82, 75>>],
       [key |-> "genre", cid |-> <<73, 71, 78, 82>>],
       [key |-> "comment", cid |-> <<73, 67, 77, 84>>],
       [key |-> "date", cid |-> <<73, 67, 82, 68>>] >>

\* a subchunk written without the pad byte after odd-sized data
InfoSubchunkUnpadded(cid, val) ==
    IF val = <<>> THEN <<>>
    ELSE LET data == riff_info_pack_string(val)
         IN  cid \o LE32(Len(data)) \o data

\* one subchunk of _make_riff_info_chunk (nothing for an empty value)
InfoSubchunk(cid, val) ==
    IF val = <<>> THEN <<>>
    ELSE LET data == riff_info_pack_string(val)
         IN  cid \o LE32(Len(data)) \o data
                 \o (IF Len(data) % 2 = 1 THEN <<0>> ELSE <<>>)

RECURSIVE InfoSubchunks(_, _)
InfoSubchunks(fields, i) ==
    IF i > Len(InfoTags) THEN <<>>
    ELSE InfoSubchunk(InfoTags[i].cid, fields[InfoTags[i].key])
             \o InfoSubchunks(fields, i + 1)

\* _make_riff_info_chunk
make_riff_info_chunk(fields) ==
    LET list_data == INFO \o InfoSubchunks(fields, 1)
    IN  LIST \o LE32(Len(list_data)) \o list_data
             \o (IF Len(list_data) % 2 = 1 THEN <<0>> ELSE <<>>)

\* header[0:4] == b"RIFF" and header[8:12] == b"WAVE" of a 12-byte header
HeaderOkRiffOnly(header) ==
    /\ Len(header) = 12
    /\ SubSeq(header, 1, 4) = RIFF
HeaderOk(header) ==
    /\ Len(header) = 12
    /\ SubSeq(header, 1, 4) = RIFF
    /\ SubSeq(header, 9, 12) = WAVE

\* what the chunk loop does with the 8-byte header hdr read at offset pos
\* of f: the bytes it writes to dst and the offset it leaves src at
CopyChunk(f, pos, hdr) ==
    LET size == UnLE32(SubSeq(hdr, 5, 8))
        p1 == pos + 8
    IN  IF SubSeq(hdr, 1, 4) = LIST /\ size >= 4
        THEN LET list_type == ReadAt(f, p1, 4)
                 p2 == p1 + Len(list_type)
                 remaining == size - 4
             IN  IF list_type = INFO
                 THEN [out |-> <<>>,
                       pos |-> p2 + remaining + (IF size % 2 = 1 THEN 1 ELSE 0)]
                 ELSE LET body == ReadAt(f, p2, remaining)
                          p3 == p2 + Len(body)
                          pad == IF size % 2 = 1 THEN ReadAt(f, p3, 1) ELSE <<>>
                      IN  [out |-> hdr \o list_type \o body \o pad,
                           pos |-> p3 + Len(pad)]
        ELSE LET body == ReadAt(f, p1, size)
                 p3 == p1 + Len(body)
                 pad == IF size % 2 = 1 THEN ReadAt(f, p3, 1) ELSE <<>>
             IN  [out |-> hdr \o body \o pad, pos |-> p3 + Len(pad)]

\* one pass of "while True" with the short header written out before break
ChunkStepKeepsTail(f, pos) ==
    LET hdr == ReadAt(f, pos, 8)
    IN  IF Len(hdr) < 8
        THEN [out |-> hdr, pos |-> pos + Len(hdr), more |-> FALSE]
        ELSE [out |-> CopyChunk(f, pos, hdr).out,
              pos |-> CopyChunk(f, pos, hdr).pos, more |-> TRUE]

\* one pass of "while True": hdr = src.read(8); if len(hdr) < 8: break
ChunkStep(f, pos) ==
    LET hdr == ReadAt(f, pos, 8)
    IN  IF Len(hdr) < 8
        THEN [out |-> <<>>, pos |-> pos + Len(hdr), more |-> FALSE]
        ELSE [out |-> CopyChunk(f, pos, hdr).out,
              pos |-> CopyChunk(f, pos, hdr).pos, more |-> TRUE]

\* dst.seek(4); dst.write(struct.pack("<I", riff_size)), riff_size being
\* file_size - 8
PatchedWholeSize(out) ==
    SubSeq(out, 1, 4) \o LE32(Len(out)) \o SubSeq(out, 9, Len(out))
Patched(out) ==
    SubSeq(out, 1, 4) \o LE32(Len(out) - 8) \o SubSeq(out, 9, Len(out))

(***************************************************************************)
(* The WAV files and tag fields the rewrite is run on.                     *)
(***************************************************************************)
\* a well-formed chunk: id, little-endian size, payload, pad when odd
Chunk(cid, payload) ==
    cid \o LE32(Len(payload)) \o payload
        \o (IF Len(payload) % 2 = 1 THEN <<0>> ELSE <<>>)

cFmt == Chunk(FMT, <<1, 0>>)
cDataOdd == Chunk(DATA, <<7>>)
\* LIST/INFO holding INAM "Old"
cInfoOld == Chunk(LIST, INFO \o Chunk(<<73, 78, 65, 77>>, <<79, 108, 100, 0>>))
\* LIST/INFO of odd size, followed by its pad byte
cInfoOdd == Chunk(LIST, INFO \o <<9>>)
\* a LIST chunk that is not INFO, of odd size
cAdtl == Chunk(LIST, ADTL \o <<5>>)
\* a LIST chunk too short to carry a list type
cListShort == Chunk(LIST, <<1, 2>>)

ChunkCatalogue == {cFmt, cDataOdd, cInfoOld, cInfoOdd, cAdtl, cListShort}

\* what may follow the last well-formed chunk
tNone == <<>>
\* 3 bytes of a chunk header
tHeaderCut == <<100, 97, 116>>
\* a chunk declaring 4 payload bytes with 2 present
tPayloadCut == DATA \o LE32(4) \o <<1, 2>>
\* an odd-sized chunk at the end of the file without its pad byte
tPadMissing == DATA \o LE32(1) \o <<7>>
\* a LIST/INFO chunk declaring more payload than the file holds
tInfoCut == LIST \o LE32(10) \o INFO \o <<1>>

Tails == {tNone, tHeaderCut, tPayloadCut, tPadMissing, tInfoCut}

RECURSIVE Concat(_)
Concat(ss) == IF ss = <<>> THEN <<>> ELSE Head(ss) \o Concat(Tail(ss))

ChunkLists == UNION { [1..n -> ChunkCatalogue] : n \in 0..MaxChunks }

WavFile(body) == RIFF \o LE32(4 + Len(body)) \o WAVE \o body

GoodFiles == { WavFile(Concat(cs) \o t) : cs \in ChunkLists, t \in Tails }

\* files the 12-byte check rejects: empty, shorter than 12 bytes, "RIFX"
\* magic, a RIFF form that is not WAVE
BadFiles ==
    { <<>>,
      RIFF \o <<1>>,
      <<82, 73, 70, 88>> \o LE32(4 + Len(cFmt)) \o WAVE \o cFmt,
      RIFF \o LE32(4 + Len(cFmt)) \o <<65, 86, 73, 32>> \o cFmt }

InputFiles == GoodFiles \cup BadFiles

NoFields ==
    [title |-> <<>>, album |-> <<>>, track |-> <<>>, genre |-> <<>>,
     comment |-> <<>>, date |-> <<>>]

\* the info dict of _write_riff_info_tags_for_windows: nothing set; an ASCII
\* title; a title with a two-byte character and a track number; a comment
\* and a date only; every field set, values of odd and of even length
FieldSets ==
    { NoFields,
      [NoFields EXCEPT !.title = <<65>>],
      [NoFields EXCEPT !.title = <<233>>, !.track = <<49>>],
      [NoFields EXCEPT !.comment = <<103>>, !.date = <<48, 49>>],
      [title |-> <<83, 32, 86, 49>>, album |-> <<77>>, track |-> <<49, 50>>,
       genre |-> <<8364>>, comment |-> <<103, 32, 124>>, date |-> <<48>>] }

(***************************************************************************)
(* _rewrite_wav_remove_info_and_append, one step at a time.                *)
(* rpc: "idle" before the first call; "opened" both files open; "loop" in  *)
(* the chunk loop; "append" after the loop; "patch" before the size patch; *)
(* "written" both files closed; "done" replaced; "bad_magic" the           *)
(* RuntimeError; "failed" an OSError; "killed" the process died.           *)
(***************************************************************************)
Running == {"opened", "loop", "append", "patch", "written"}

\* _write_riff_info_tags_for_windows builds the chunk and calls the rewrite,
\* which opens wav_path for reading and wav_path + ".tmp" for writing
BeginRewrite ==
    /\ rpc \notin Running
    /\ rewrites < MaxRewrites
    /\ \E fields \in FieldSets : info' = make_riff_info_chunk(fields)
    /\ orig' = wav
    /\ tmp' = <<>>
    /\ srcPos' = 0
    /\ rpc' = "opened"
    /\ rewrites' = rewrites + 1
    /\ UNCHANGED wav
    /\ UNCHANGED <<workerVars, tagVars, scanVars, ctlVars>>

\* header = src.read(12); the magic check; dst.write(header)
ReadHeader ==
    /\ rpc = "opened"
    /\ LET header == ReadAt(wav, 0, 12)
       IN  IF HeaderOk(header)
           THEN /\ tmp' = tmp \o header
                /\ srcPos' = 12
                /\ rpc' = "loop"
           ELSE /\ rpc' = "bad_magic"
                /\ UNCHANGED <<tmp, srcPos>>
    /\ UNCHANGED <<wav, info, orig, rewrites>>
    /\ UNCHANGED <<workerVars, tagVars, scanVars, ctlVars>>

\* one pass of the chunk loop
CopyNextChunk ==
    /\ rpc = "loop"
    /\ LET r == ChunkStep(wav, srcPos)
       IN  /\ tmp' = tmp \o r.out
           /\ srcPos' = r.pos
           /\ rpc' = IF r.more THEN "loop" ELSE "append"
    /\ UNCHANGED <<wav, info, orig, rewrites>>
    /\ UNCHANGED <<workerVars, tagVars, scanVars, ctlVars>>

\* dst.write(info_chunk)
AppendInfo ==
    /\ rpc = "append"
    /\ tmp' = tmp \o info
    /\ rpc' = "patch"
    /\ UNCHANGED <<wav, srcPos, info, orig, rewrites>>
    /\ UNCHANGED <<workerVars, tagVars, scanVars, ctlVars>>

\* the size patch at offset 4, then the with-block closes both files
PatchSize ==
    /\ rpc = "patch"
    /\ tmp' = Patched(tmp)
    /\ rpc' = "written"
    /\ srcPos' = 0
    /\ UNCHANGED <<wav, info, orig, rewrites>>
    /\ UNCHANGED <<workerVars, tagVars, scanVars, ctlVars>>

\* a replace issued as soon as the chunks are copied
ReplaceOriginalEarly ==
    /\ rpc \in {"append", "written"}
    /\ wav' = tmp
    /\ tmp' = NoFile
    /\ rpc' = "done"
    /\ srcPos' = 0
    /\ UNCHANGED <<info, orig, rewrites>>
    /\ UNCHANGED <<workerVars, tagVars, scanVars, ctlVars>>

\* os.replace(tmp_path, wav_path)
ReplaceOriginal ==
    /\ rpc = "written"
    /\ wav' = tmp
    /\ tmp' = NoFile
    /\ rpc' = "done"
    /\ srcPos' = 0
    /\ UNCHANGED <<info, orig, rewrites>>
    /\ UNCHANGED <<workerVars, tagVars, scanVars, ctlVars>>

\* a read, a write or the replace raises OSError: the exception leaves the
\* function, the temporary file stays as it is
RewriteRaises ==
    /\ rpc \in Running
    /\ rpc' = "failed"
    /\ srcPos' = 0
    /\ UNCHANGED <<wav, tmp, info, orig, rewrites>>
    /\ UNCHANGED <<workerVars, tagVars, scanVars, ctlVars>>

\* the process is killed between two steps
Interrupted ==
    /\ rpc \in Running
    /\ rpc' = "killed"
    /\ srcPos' = 0
    /\ UNCHANGED <<wav, tmp, info, orig, rewrites>>
    /\ UNCHANGED <<workerVars, tagVars, scanVars, ctlVars>>

InitRiff ==
    /\ dir = {}
    /\ pc = "idle"
    /\ mode = NoMode
    /\ budget = 0
    /\ NoLine
    /\ issued = {}
    /\ firstBase = [id \in Ids |-> NoBase]
    /\ wav_jobs = {}
    /\ did = {}
    /\ wav \in InputFiles
    /\ orig = wav
    /\ tmp = NoFile
    /\ rpc = "idle"
    /\ srcPos = 0
    /\ info = <<>>
    /\ rewrites = 0
    /\ TagIdle
    /\ ScanIdle
    /\ CtlIdle

NextRiff ==
    \/ BeginRewrite
    \/ ReadHeader
    \/ CopyNextChunk
    \/ AppendInfo
    \/ PatchSize
    \/ ReplaceOriginal
    \/ RewriteRaises
    \/ Interrupted

SpecRiff == InitRiff /\ [][NextRiff]_vars

(***************************************************************************)
(* Tag frames.  A tag object is a function from frame keys (mutagen's      *)
(* HashKey for ID3, the field name for FLAC) to values; a value is a list  *)
(* of texts and a text is a sequence of tokens, a clip identifier (a UUID) *)
(* being one token.                                                        *)
(***************************************************************************)
NoFrames == [k \in {} |-> <<>>]

\* id3.add(frame) / audio[key] = value: the frame of that key is replaced
AddFrame(fr, k, v) == [x \in (DOMAIN fr) \cup {k} |-> IF x = k THEN v ELSE fr[x]]

\* str(clip_id) as a text
IdText(id) == IF id = NoId THEN <<>> ELSE <<id>>

\* str(fr.desc).strip().lower() == "id", over the keys of the model
WxxxIdKeys == {"WXXX:ID", "WXXX:id"}
TxxxIdKeys == {"TXXX:ID"}

\* _get_id_wxxx_frame(id3) is not None / _get_id_txxx_frame(id3) is not None
get_id_wxxx_frame(fr) == (DOMAIN fr) \cap WxxxIdKeys # {}
get_id_txxx_frame(fr) == (DOMAIN fr) \cap TxxxIdKeys # {}

\* _vorbis_has_nonempty(tags, key): any(str(v).strip() for v in vals)
vorbis_has_nonempty(fr, key) ==
    /\ key \in DOMAIN fr
    /\ \E i \in 1..Len(fr[key]) : strip(fr[key][i]) # <<>>

\* a fill that adds the URL frame only
FillMissingWxxxOnly(kind, fr, clip_id) ==
    IF kind = "mp3" /\ ~get_id_wxxx_frame(fr)
    THEN AddFrame(fr, "WXXX:ID", <<IdText(clip_id)>>)
    ELSE fr

\* a fill that also sets the title
FillMissingSetsTitle(kind, fr, clip_id) ==
    AddFrame(AddFrame(AddFrame(fr, "WXXX:ID", <<IdText(clip_id)>>),
                      "TXXX:ID", <<IdText(clip_id)>>),
             "TIT2", <<IdText(clip_id)>>)

\* the frames after the "is None" tests of retag_mp3_... (WXXX, then TXXX)
\* and after the _vorbis_has_nonempty test of retag_flac_...
FillMissing(kind, fr, clip_id) ==
    IF kind = "mp3"
    THEN LET f1 == IF get_id_wxxx_frame(fr) THEN fr
                   ELSE AddFrame(fr, "WXXX:ID", <<IdText(clip_id)>>)
         IN  IF get_id_txxx_frame(f1) THEN f1
             ELSE AddFrame(f1, "TXXX:ID", <<IdText(clip_id)>>)
    ELSE IF vorbis_has_nonempty(fr, "ID") THEN fr
         ELSE AddFrame(fr, "ID", <<IdText(clip_id)>>)

(***************************************************************************)
(* File timestamps.  os.stat gives st_atime and st_mtime as float seconds; *)
(* the file system keeps finer units, of which the floats represent every  *)
(* second one.                                                             *)
(***************************************************************************)
\* the float nearest to a file-system time
FloatOf(t) == 2 * ((t + 1) \div 2)

\* times a file may carry before the call, and times a read or a write
\* during the call may stamp on it
InitTimes == {2, 3}
TouchTimes == {6, 7}

(***************************************************************************)
(* The audio files the tag calls are run on.                               *)
(***************************************************************************)
Txt(tok) == <<tok>>

mp3Plain ==
    ("TIT2" :> <<Txt("Old")>>) @@ ("TALB" :> <<Txt("Alb")>>)
        @@ ("TCON" :> <<Txt("pop")>>) @@ ("TPE1" :> <<Txt("Art")>>)
mp3Both == AddFrame(AddFrame(mp3Plain, "WXXX:ID", <<Txt("a")>>),
                    "TXXX:ID", <<Txt("a")>>)
mp3WxxxOnly == AddFrame(mp3Plain, "WXXX:ID", <<Txt("a")>>)
mp3TxxxOnly == AddFrame(mp3Plain, "TXXX:ID", <<Txt("a")>>)
mp3LowerDesc == AddFrame(AddFrame(mp3Plain, "WXXX:id", <<Txt("a")>>),
                         "TXXX:ID", <<Txt("a")>>)
mp3Legacy == AddFrame(mp3Plain, "TCOM", <<<<"by", " ", "a">>>>)

\* identifier frames that are present without a UUID: an empty URL and a
\* text that is no UUID
mp3JunkId == AddFrame(AddFrame(mp3Plain, "WXXX:ID", <<<<>>>>),
                      "TXXX:ID", <<Txt("x")>>)

flacPlain == ("TITLE" :> <<Txt("Old")>>) @@ ("ALBUM" :> <<Txt("Alb")>>)
flacId == AddFrame(flacPlain, "ID", <<Txt("a")>>)
flacBlankId == AddFrame(flacPlain, "ID", <<<<>>, <<" ">>>>)
flacMultiId == AddFrame(flacPlain, "ID", <<<<>>, Txt("x")>>)

\* hdr: "ok" a readable tag; "none" no ID3 header (ID3NoHeaderError);
\* "corrupt" a tag the library cannot read (any other exception)
TagFile(kind, hdr, frames) ==
    {[kind |-> kind, hdr |-> hdr, frames |-> frames, atime |-> a, mtime |-> m] :
        a \in InitTimes, m \in InitTimes}

TagFiles ==
    UNION ( {TagFile("mp3", "ok", f) :
                f \in {mp3Plain, mp3Both, mp3WxxxOnly, mp3TxxxOnly,
                       mp3LowerDesc, mp3Legacy, mp3JunkId}}
            \cup {TagFile("mp3", "none", NoFrames),
                  TagFile("mp3", "corrupt", mp3Plain),
                  TagFile("wav", "none", NoFrames)}
            \cup {TagFile("flac", "ok", f) :
                     f \in {flacPlain, flacId, flacBlankId, flacMultiId, NoFrames}}
            \cup {TagFile("flac", "corrupt", flacPlain)} )

(***************************************************************************)
(* FULL tagging: _populate_id3_common and embed_tags_full_rewrite_mp3.     *)
(***************************************************************************)
\* str(x) of a clip field: None prints as "None"
PyStr(x) == IF x = Nil THEN <<"None">> ELSE x

\* a field is truthy when it is neither None nor empty
Truthy(x) == x # Nil /\ x # <<>>

IsoStamp == <<"2024-01-02T15:04:05Z">>
FormattedStamp == <<"01-02-2024 03:04:05 PM">>

\* format_created: an ISO time is reformatted, anything else is str(raw)
format_created(raw) == IF raw = IsoStamp THEN FormattedStamp ELSE PyStr(raw)

\* " | ".join(filter(None, [original_comment, ", ".join(parts)]))
CommentParts(clip) ==
    (IF clip.weight # Nil THEN <<<<"Weight: ">> \o clip.weight>> ELSE <<>>)
        \o (IF clip.creativity # Nil
            THEN <<<<"Creativity: ">> \o clip.creativity>> ELSE <<>>)

RECURSIVE JoinWith(_, _)
JoinWith(sep, texts) ==
    IF texts = <<>> THEN <<>>
    ELSE IF Len(texts) = 1 THEN texts[1]
    ELSE texts[1] \o sep \o JoinWith(sep, Tail(texts))

comment_text(clip) ==
    LET original_comment == IF Truthy(clip.gpt) THEN clip.gpt ELSE <<>>
        sliders == JoinWith(<<", ">>, CommentParts(clip))
    IN  JoinWith(<<" | ">>,
                 SelectSeq(<<original_comment, sliders>>, LAMBDA t : t # <<>>))

\* str(x or "") of a clip field
StrOrEmpty(x) == IF Truthy(x) THEN x ELSE <<>>

\* the comment of _write_riff_info_tags_for_windows: gpt, "ID: <id>",
\* "Weight: ..." and "Creativity: ...", joined by " | "
info_comment(clip) ==
    JoinWith(<<" | ">>,
             (IF Truthy(clip.gpt) THEN <<clip.gpt>> ELSE <<>>)
                 \o (IF clip.id # NoId
                     THEN <<<<"ID: ">> \o IdText(clip.id)>> ELSE <<>>)
                 \o CommentParts(clip))

\* an info dict whose date is the created value as the service gave it
riff_info_fields_raw_date(clip) ==
    [title |-> StrOrEmpty(clip.title),
     album |-> StrOrEmpty(clip.playlist),
     track |-> IF clip.rel_idx = 0 THEN <<>> ELSE IntToStr(clip.rel_idx),
     genre |-> StrOrEmpty(clip.tags),
     comment |-> info_comment(clip),
     date |-> StrOrEmpty(clip.created)]

\* the info dict of _write_riff_info_tags_for_windows
riff_info_fields(clip) ==
    [title |-> StrOrEmpty(clip.title),
     album |-> StrOrEmpty(clip.playlist),
     track |-> IF clip.rel_idx = 0 THEN <<>> ELSE IntToStr(clip.rel_idx),
     genre |-> StrOrEmpty(clip.tags),
     comment |-> info_comment(clip),
     date |-> IF Truthy(clip.created) THEN format_created(clip.created) ELSE <<>>]

\* clip.get("lyrics") or clip.get("prompt") or ""
lyrics_text(clip) ==
    IF Truthy(clip.lyrics) THEN clip.lyrics
    ELSE IF Truthy(clip.prompt) THEN clip.prompt ELSE <<>>

\* "image/jpeg" if ext in (".jpg", ".jpeg") else "image/png"
Mime(cover) == IF cover \in {".jpg", ".jpeg"} THEN "image/jpeg" ELSE "image/png"

AddIf(cond, fr, k, v) == IF cond THEN AddFrame(fr, k, v) ELSE fr

\* the id3.add calls of _populate_id3_common, in order, onto base
AddCanonical(base, clip, cover) ==
    LET f1 == AddFrame(base, "TIT2", <<PyStr(clip.title)>>)
        f2 == AddFrame(f1, "TALB", <<PyStr(clip.playlist)>>)
        f3 == AddFrame(f2, "TRCK", <<IntToStr(clip.rel_idx)>>)
        f4 == AddIf(Truthy(clip.tags), f3, "TCON", <<clip.tags>>)
        f5 == AddIf(lyrics_text(clip) # <<>>, f4, "USLT::eng", <<lyrics_text(clip)>>)
        f6 == AddIf(Truthy(clip.created), f5, "TCOP", <<format_created(clip.created)>>)
        f7 == AddIf(comment_text(clip) # <<>>, f6, "COMM::eng", <<comment_text(clip)>>)
        f8 == AddIf(clip.id # NoId, f7, "WXXX:ID", <<IdText(clip.id)>>)
        f9 == AddIf(clip.id # NoId, f8, "TXXX:ID", <<IdText(clip.id)>>)
    IN  AddIf(cover \notin {"none", "missing"}, f9, "APIC:Cover", <<Txt(Mime(cover))>>)

\* a populate that skips the "Clear existing frames" loop
populate_without_clear(fr, clip, cover) == AddCanonical(fr, clip, cover)

\* a populate that stores the title in the album frame
populate_swaps_album(fr, clip, cover) ==
    AddFrame(AddCanonical(NoFrames, clip, cover), "TALB", <<PyStr(clip.title)>>)

\* _populate_id3_common: every existing frame deleted, then the adds
populate_id3_common(fr, clip, cover) == AddCanonical(NoFrames, clip, cover)

\* the clip records passed to FULL tagging: after the allocation loop the
\* title is the file base, id is stripped by the fetch
ClipRecords ==
    { [id |-> "b", title |-> <<"S", " ", "V", "1">>, playlist |-> <<"Mix">>,
       rel_idx |-> 12, tags |-> <<"rock">>, lyrics |-> <<"la">>, prompt |-> <<>>,
       created |-> IsoStamp, gpt |-> <<"g">>, weight |-> <<"0.5">>,
       creativity |-> <<"0.2">>],
      [id |-> "a", title |-> <<"a", " ", "V", "1">>, playlist |-> <<"Unsorted">>,
       rel_idx |-> 1, tags |-> <<>>, lyrics |-> <<>>, prompt |-> <<"p">>,
       created |-> <<"soon">>, gpt |-> <<>>, weight |-> Nil,
       creativity |-> <<"0.2">>],
      [id |-> NoId, title |-> <<"Untitled", " ", "V", "1">>, playlist |-> <<>>,
       rel_idx |-> 3, tags |-> <<>>, lyrics |-> <<>>, prompt |-> <<>>,
       created |-> <<>>, gpt |-> <<>>, weight |-> Nil, creativity |-> Nil] }

\* img_path: None, a path that does not exist, an image file, a file that
\* exists and cannot be opened
Covers == {"none", "missing", ".jpg", ".png", "unreadable"}

(***************************************************************************)
(* The tag calls, one step at a time.                                      *)
(* tpc: "idle"; "read" timestamps captured, tags not yet read; "save" a    *)
(* frame was added; "finally" the finally block of a fill; "fload" a FULL  *)
(* call entered; "fsave" frames populated; "finfo" a WAV saved, its INFO   *)
(* chunk not yet written; "returned" the call is over.                     *)
(* tret: "true" / "false" the boolean a fill returned; "raised" a fill     *)
(* left by an exception; "done" / "failed" a FULL call saved / logged      *)
(* "[TAG] Failed tagging" (it returns None either way).                    *)
(***************************************************************************)
\* the frames ID3(path) / FLAC(path) yields: ID3NoHeaderError gives ID3()
Loaded(f) == IF f.hdr = "ok" THEN f.frames ELSE NoFrames

\* a fill that sets changed whatever it finds
FillChangedAlways(kind, fr) == TRUE

\* changed, as the fill sets it
FillChanged(kind, fr) ==
    IF kind = "mp3" THEN ~get_id_wxxx_frame(fr) \/ ~get_id_txxx_frame(fr)
    ELSE ~vorbis_has_nonempty(fr, "ID")

\* retag_*_fill_missing_preserve_timestamps up to the try: the early
\* "return False", else os.stat and the capture of atime and mtime
BeginFill ==
    /\ tpc \in {"idle", "returned"}
    /\ tcalls < MaxCalls
    /\ tfile.kind \in {"mp3", "flac"}
    /\ \E clip_id \in {NoId, "b"}, FLAC_AVAILABLE \in BOOLEAN :
          /\ targ' = clip_id
          /\ IF clip_id = NoId \/ (tfile.kind = "flac" /\ ~FLAC_AVAILABLE)
             THEN /\ tret' = "false"
                  /\ tpc' = "returned"
                  /\ captured' = NoTimes
             ELSE /\ tret' = "none"
                  /\ tpc' = "read"
                  /\ captured' = <<FloatOf(tfile.atime), FloatOf(tfile.mtime)>>
    /\ tpre' = tfile
    /\ tsaves' = 0
    /\ id3' = <<>>
    /\ tcalls' = tcalls + 1
    /\ UNCHANGED tfile
    /\ utime' = "none"
    /\ UNCHANGED <<workerVars, riffVars, scanVars, ctlVars>>
    /\ tinfo' = <<>>

\* the tags are read and the missing identifier frames added in memory;
\* reading may stamp a new access time on the file
FillRead ==
    /\ tpc = "read"
    /\ tfile.hdr # "corrupt"
    /\ \E a \in TouchTimes \cup {tfile.atime} :
          tfile' = [tfile EXCEPT !.atime = a]
    /\ IF FillChanged(tfile.kind, Loaded(tfile))
       THEN /\ id3' = FillMissing(tfile.kind, Loaded(tfile), targ)
            /\ tpc' = "save"
            /\ UNCHANGED tret
       ELSE /\ id3' = <<>>
            /\ tpc' = "finally"
            /\ tret' = "false"
    /\ UNCHANGED <<captured, targ, tpre, tsaves, tcalls>>
    /\ UNCHANGED <<workerVars, riffVars, scanVars, ctlVars, utime>>
    /\ UNCHANGED tinfo

\* ID3(path) raises something other than ID3NoHeaderError, or FLAC(path)
\* raises: the exception passes through the finally block
FillReadRaises ==
    /\ tpc = "read"
    /\ tfile.hdr = "corrupt"
    /\ \E a \in TouchTimes \cup {tfile.atime} :
          tfile' = [tfile EXCEPT !.atime = a]
    /\ tpc' = "finally"
    /\ tret' = "raised"
    /\ UNCHANGED <<id3, captured, targ, tpre, tsaves, tcalls>>
    /\ UNCHANGED <<workerVars, riffVars, scanVars, ctlVars, utime>>
    /\ UNCHANGED tinfo

\* id3.save(mp3_path, v2_version=4) / audio.save() succeeds
FillSave ==
    /\ tpc = "save"
    /\ \E m \in TouchTimes :
          tfile' = [tfile EXCEPT !.frames = id3, !.hdr = "ok", !.mtime = m]
    /\ tsaves' = tsaves + 1
    /\ tret' = "true"
    /\ tpc' = "finally"
    /\ id3' = <<>>
    /\ UNCHANGED <<captured, targ, tpre, tcalls>>
    /\ UNCHANGED <<workerVars, riffVars, scanVars, ctlVars, utime>>
    /\ UNCHANGED tinfo

\* the save raises (file locked or read-only): the file keeps its tags
FillSaveRaises ==
    /\ tpc = "save"
    /\ tret' = "raised"
    /\ tpc' = "finally"
    /\ id3' = <<>>
    /\ UNCHANGED <<tfile, captured, targ, tpre, tsaves, tcalls>>
    /\ UNCHANGED <<workerVars, riffVars, scanVars, ctlVars, utime>>
    /\ UNCHANGED tinfo

\* a finally block that restores only after a save
FillRestoreAfterSaveOnly ==
    /\ tpc = "finally"
    /\ tfile' = IF tsaves > 0
                THEN [tfile EXCEPT !.atime = captured[1], !.mtime = captured[2]]
                ELSE tfile
    /\ tpc' = "returned"
    /\ UNCHANGED <<id3, captured, targ, tret, tpre, tsaves, tcalls>>
    /\ utime' = "ok"
    /\ UNCHANGED <<workerVars, riffVars, scanVars, ctlVars>>
    /\ UNCHANGED tinfo

\* finally: os.utime(path, (atime, mtime)) succeeds
FillRestore ==
    /\ tpc = "finally"
    /\ tfile' = [tfile EXCEPT !.atime = captured[1], !.mtime = captured[2]]
    /\ tpc' = "returned"
    /\ UNCHANGED <<id3, captured, targ, tret, tpre, tsaves, tcalls>>
    /\ utime' = "ok"
    /\ UNCHANGED <<workerVars, riffVars, scanVars, ctlVars>>
    /\ UNCHANGED tinfo

\* finally: os.utime raises and "except Exception: pass" swallows it
FillRestoreFails ==
    /\ tpc = "finally"
    /\ tpc' = "returned"
    /\ UNCHANGED <<tfile, id3, captured, targ, tret, tpre, tsaves, tcalls>>
    /\ utime' = "failed"
    /\ UNCHANGED <<workerVars, riffVars, scanVars, ctlVars>>
    /\ UNCHANGED tinfo

\* embed_tags_full_rewrite_mp3 / embed_tags_full_rewrite_wav is called with
\* a clip and a cover path
BeginFull ==
    /\ tpc \in {"idle", "returned"}
    /\ tcalls < MaxCalls
    /\ tfile.kind \in {"mp3", "wav"}
    /\ \E clip \in ClipRecords, cover \in Covers :
          targ' = [clip |-> clip, cover |-> cover]
    /\ tpc' = "fload"
    /\ tret' = "none"
    /\ captured' = NoTimes
    /\ tpre' = tfile
    /\ tsaves' = 0
    /\ id3' = <<>>
    /\ tcalls' = tcalls + 1
    /\ UNCHANGED tfile
    /\ utime' = "none"
    /\ UNCHANGED <<workerVars, riffVars, scanVars, ctlVars>>
    /\ tinfo' = <<>>

\* ID3(mp3_path), a fresh ID3() on any exception, then _populate_id3_common;
\* opening the cover may raise, which ends the call in the outer except
FullPopulate ==
    /\ tpc = "fload"
    /\ \E a \in TouchTimes \cup {tfile.atime} :
          tfile' = [tfile EXCEPT !.atime = a]
    /\ IF targ.cover = "unreadable"
       THEN /\ tret' = "failed"
            /\ tpc' = "returned"
            /\ id3' = <<>>
       ELSE /\ id3' = populate_id3_common(Loaded(tfile), targ.clip, targ.cover)
            /\ tpc' = "fsave"
            /\ UNCHANGED tret
    /\ UNCHANGED <<captured, targ, tpre, tsaves, tcalls>>
    /\ UNCHANGED <<workerVars, riffVars, scanVars, ctlVars, utime>>
    /\ UNCHANGED tinfo

\* id3.save(mp3_path, v2_version=4) / w.save(v2_version=4) succeeds; for a
\* WAV the RIFF INFO write follows
FullSave ==
    /\ tpc = "fsave"
    /\ \E m \in TouchTimes :
          tfile' = [tfile EXCEPT !.frames = id3, !.hdr = "ok", !.mtime = m]
    /\ tsaves' = tsaves + 1
    /\ tret' = "done"
    /\ tpc' = IF tfile.kind = "wav" THEN "finfo" ELSE "returned"
    /\ id3' = <<>>
    /\ UNCHANGED <<captured, targ, tpre, tcalls>>
    /\ UNCHANGED <<workerVars, riffVars, scanVars, ctlVars, utime>>
    /\ UNCHANGED tinfo

\* the save raises: caught and logged by embed_tags_full_rewrite_mp3
FullSaveFails ==
    /\ tpc = "fsave"
    /\ tret' = "failed"
    /\ tpc' = "returned"
    /\ id3' = <<>>
    /\ UNCHANGED <<tfile, captured, targ, tpre, tsaves, tcalls>>
    /\ UNCHANGED <<workerVars, riffVars, scanVars, ctlVars, utime>>
    /\ UNCHANGED tinfo

\* _write_riff_info_tags_for_windows(wav_path, clip): the info dict is built
\* from the clip and written as the LIST/INFO chunk of the file
FullWriteInfo ==
    /\ tpc = "finfo"
    /\ tinfo' = <<riff_info_fields(targ.clip)>>
    /\ \E m \in TouchTimes : tfile' = [tfile EXCEPT !.mtime = m]
    /\ tpc' = "returned"
    /\ UNCHANGED <<id3, captured, targ, tret, tpre, tsaves, tcalls>>
    /\ UNCHANGED <<workerVars, riffVars, scanVars, ctlVars, utime>>

\* the RIFF INFO write raises: "[WAVTAG] RIFF INFO write failed (non-fatal)"
FullWriteInfoFails ==
    /\ tpc = "finfo"
    /\ tpc' = "returned"
    /\ UNCHANGED <<tfile, id3, captured, targ, tret, tpre, tsaves, tcalls>>
    /\ UNCHANGED <<workerVars, riffVars, scanVars, ctlVars, utime, tinfo>>

InitTag ==
    /\ dir = {}
    /\ pc = "idle"
    /\ mode = NoMode
    /\ budget = 0
    /\ NoLine
    /\ issued = {}
    /\ firstBase = [id \in Ids |-> NoBase]
    /\ wav_jobs = {}
    /\ did = {}
    /\ RiffIdle
    /\ ScanIdle
    /\ CtlIdle
    /\ tfile \in TagFiles
    /\ tpre = tfile
    /\ tpc = "idle"
    /\ id3 = <<>>
    /\ captured = NoTimes
    /\ targ = <<>>
    /\ tret = "none"
    /\ tsaves = 0
    /\ tcalls = 0
    /\ utime = "none"
    /\ tinfo = <<>>

NextTag ==
    \/ BeginFill
    \/ FillRead
    \/ FillReadRaises
    \/ FillSave
    \/ FillSaveRaises
    \/ FillRestore
    \/ FillRestoreFails
    \/ BeginFull
    \/ FullPopulate
    \/ FullSave
    \/ FullSaveFails
    \/ FullWriteInfo
    \/ FullWriteInfoFails

SpecTag == InitTag /\ [][NextTag]_vars

(***************************************************************************)
(* Identifier extraction: mp3_extract_clip_id and flac_extract_clip_id.    *)
(* A text is a sequence of tokens and UUID_RE matches the tokens of Ids.   *)
(***************************************************************************)
\* UUID_RE.fullmatch(val)
UuidFullmatch(val) == Len(val) = 1 /\ val[1] \in Ids

\* UUID_RE.search(txt): m.group(0) of the first match, NoId for no match
UuidSearch(txt) ==
    IF \E i \in 1..Len(txt) : txt[i] \in Ids
    THEN txt[CHOOSE i \in 1..Len(txt) :
                /\ txt[i] \in Ids
                /\ \A j \in 1..(i - 1) : txt[j] \notin Ids]
    ELSE NoId

\* the WXXX loop: the stripped url of an "ID" frame, if it is a UUID
ExtractWxxx(fr) ==
    LET hits == {k \in (DOMAIN fr) \cap WxxxIdKeys : UuidFullmatch(strip(fr[k][1]))}
    IN  IF hits = {} THEN NoId ELSE strip(fr[CHOOSE k \in hits : TRUE][1])[1]

\* the TXXX loop: the first UUID in " ".join(fr.text).strip()
ExtractTxxx(fr) ==
    LET hits == {k \in (DOMAIN fr) \cap TxxxIdKeys :
                    UuidSearch(strip(JoinWith(<<" ">>, fr[k]))) # NoId}
    IN  IF hits = {} THEN NoId
        ELSE UuidSearch(strip(JoinWith(<<" ">>, fr[CHOOSE k \in hits : TRUE])))

\* the TCOM fallback
ExtractTcom(fr) ==
    IF "TCOM" \in DOMAIN fr
    THEN UuidSearch(strip(JoinWith(<<" ">>, fr["TCOM"])))
    ELSE NoId

\* an exception of the extraction reaching the loop of the scan
Raised == "raised"

\* mp3_extract_clip_id(path) as a function of the file's tag (NoId for None)
mp3_extract_clip_id(f) ==
    IF f.hdr # "ok" THEN NoId
    ELSE IF ExtractWxxx(f.frames) # NoId THEN ExtractWxxx(f.frames)
    ELSE IF ExtractTxxx(f.frames) # NoId THEN ExtractTxxx(f.frames)
    ELSE ExtractTcom(f.frames)

\* the first UUID among the values of a Vorbis field
RECURSIVE VorbisSearch(_)
VorbisSearch(vals) ==
    IF vals = <<>> THEN NoId
    ELSE IF UuidSearch(strip(Head(vals))) # NoId THEN UuidSearch(strip(Head(vals)))
    ELSE VorbisSearch(Tail(vals))

\* flac_extract_clip_id(path): the keys "ID", then "COMPOSER"
flac_extract_clip_id(f, avail) ==
    IF ~avail \/ f.hdr # "ok" THEN NoId
    ELSE LET id == IF "ID" \in DOMAIN f.frames
                   THEN VorbisSearch(f.frames["ID"]) ELSE NoId
         IN  IF id # NoId THEN id
             ELSE IF "COMPOSER" \in DOMAIN f.frames
                  THEN VorbisSearch(f.frames["COMPOSER"]) ELSE NoId

\* an extraction that reads the composer frame before the "ID" frames
extract_clip_id_legacy_first(f, avail) ==
    IF f.ext = "flac" THEN flac_extract_clip_id(f, avail)
    ELSE IF f.hdr # "ok" THEN NoId
    ELSE IF ExtractTcom(f.frames) # NoId THEN ExtractTcom(f.frames)
    ELSE mp3_extract_clip_id(f)

\* an extraction that lets the exception of ID3(path) / FLAC(path) out
extract_clip_id_unguarded(f, avail) ==
    IF f.hdr = "corrupt" /\ (f.ext = "mp3" \/ avail) THEN Raised
    ELSE IF f.ext = "mp3" THEN mp3_extract_clip_id(f)
    ELSE flac_extract_clip_id(f, avail)

\* the extraction the scan runs on a file
extract_clip_id(f, avail) ==
    IF f.ext = "mp3" THEN mp3_extract_clip_id(f) ELSE flac_extract_clip_id(f, avail)

(***************************************************************************)
(* scan_audio_dir_ids, one file at a time.  sfiles is the directory in the *)
(* order the two globs yield it (every *.mp3 before every *.flac).         *)
(* sret: "none"; "walk" inside the try; "seed" after it; "returned".       *)
(***************************************************************************)
ScanFile(stem, ext, hdr, frames) ==
    [stem |-> stem, ext |-> ext, hdr |-> hdr, frames |-> frames]

\* a URL frame that is no UUID, a text frame holding two identifiers and a
\* composer frame holding a third
mp3InvalidUrl ==
    AddFrame(AddFrame(AddFrame(mp3Plain, "WXXX:ID", <<Txt("x")>>),
                      "TXXX:ID", <<<<"id", "b">>, Txt("a")>>),
             "TCOM", <<<<"by", " ", "z">>>>)

\* all three places carry an identifier, each a different one
mp3ThreeIds ==
    AddFrame(AddFrame(AddFrame(mp3Plain, "WXXX:ID", <<Txt("z")>>),
                      "TXXX:ID", <<Txt("b")>>),
             "TCOM", <<Txt("a")>>)
ScanMp3s ==
    { ScanFile(<<"S", " ", "V", "1">>, "mp3", "ok", mp3Both),
      ScanFile(<<"S", " ", "V", "3">>, "mp3", "ok", mp3Plain),
      ScanFile(<<"M">>, "mp3", "ok", mp3ThreeIds),
      ScanFile(<<"C">>, "mp3", "corrupt", mp3Both),
      ScanFile(<<"N">>, "mp3", "none", NoFrames),
      ScanFile(<<"L", " ", "V", "2">>, "mp3", "ok", mp3Legacy),
      ScanFile(<<"X", " ", "v", "0", "2">>, "mp3", "ok", mp3InvalidUrl) }
ScanFlacs ==
    { ScanFile(<<"S", " ", "V", "1">>, "flac", "ok", flacId),
      ScanFile(<<"D">>, "flac", "corrupt", flacId),
      ScanFile(<<"B">>, "flac", "ok", flacBlankId),
      ScanFile(<<"K">>, "flac", "ok", AddFrame(flacPlain, "COMPOSER", <<Txt("b")>>)) }

\* a directory listing: distinct files, the *.mp3 loop before the *.flac loop
Listings ==
    UNION { {l \in [1..n -> ScanMp3s \cup ScanFlacs] :
                /\ \A i, j \in 1..n : i < j => l[i] # l[j]
                /\ \A i, j \in 1..n :
                      (i < j /\ l[i].ext = "flac") => l[j].ext = "flac"} :
            n \in 0..MaxFiles }

\* existing_by_id.setdefault(cid, {...}) and, for a FLAC, entry["flac"] = path
IndexAfter(index, f, cid) ==
    LET fresh == [base |-> f.stem,
                  mp3 |-> IF f.ext = "mp3" THEN f.stem ELSE Nil,
                  flac |-> Nil]
        entry == IF cid \in DOMAIN index THEN index[cid] ELSE fresh
        set == IF f.ext = "flac" THEN [entry EXCEPT !.flac = f.stem] ELSE entry
    IN  [c \in (DOMAIN index) \cup {cid} |-> IF c = cid THEN set ELSE index[c]]

\* "for stem in stems": per raw the largest version above the default 0 of
\* version_seed.get(raw, 0), over the stems mver matches
version_seed_of(stems) ==
    LET hits == {i \in 1..Len(stems) :
                    MverMatches(stems[i]) /\ MverVersion(stems[i]) > 0}
        raws == {MverRaw(stems[i]) : i \in hits}
    IN  [raw \in raws |->
            Max({MverVersion(stems[i]) : i \in {j \in hits : MverRaw(stems[j]) = raw}})]

\* a call on a directory; "if not p.exists(): return existing_by_id, {}"
ScanBegin ==
    /\ sret \in {"none", "returned"}
    /\ \E l \in Listings, avail \in BOOLEAN, exists \in BOOLEAN :
          /\ sfiles' = IF exists THEN l ELSE <<>>
          /\ flac_available' = avail
          /\ sret' = IF exists THEN "walk" ELSE "returned"
          /\ sseed' = IF exists THEN <<>> ELSE <<version_seed_of(<<>>)>>
    /\ spos' = 1
    /\ sindex' = <<>>
    /\ sstems' = <<>>
    /\ sglob' = FALSE
    /\ UNCHANGED <<workerVars, riffVars, tagVars, ctlVars>>

\* one iteration of "for f in p.glob(...)": the extraction and, for a cid,
\* the index entry and the stem; an exception would end the try block
ScanStep ==
    /\ sret = "walk"
    /\ spos <= Len(sfiles)
    /\ LET f == sfiles[spos]
           cid == extract_clip_id(f, flac_available)
       IN  IF cid = Raised
           THEN /\ sret' = "seed"
                /\ UNCHANGED <<spos, sindex, sstems>>
           ELSE /\ spos' = spos + 1
                /\ sindex' = IF cid # NoId THEN IndexAfter(sindex, f, cid) ELSE sindex
                /\ sstems' = IF cid # NoId THEN Append(sstems, f.stem) ELSE sstems
                /\ UNCHANGED sret
    /\ UNCHANGED <<sfiles, flac_available, sglob, sseed>>
    /\ UNCHANGED <<workerVars, riffVars, tagVars, ctlVars>>

\* a glob raises while the directory is listed: "except Exception" logs it
ScanGlobFails ==
    /\ sret = "walk"
    /\ sglob' = TRUE
    /\ sret' = "seed"
    /\ UNCHANGED <<sfiles, spos, sindex, sstems, flac_available, sseed>>
    /\ UNCHANGED <<workerVars, riffVars, tagVars, ctlVars>>

\* both loops are done
ScanWalked ==
    /\ sret = "walk"
    /\ spos > Len(sfiles)
    /\ sret' = "seed"
    /\ UNCHANGED <<sfiles, spos, sindex, sstems, flac_available, sglob, sseed>>
    /\ UNCHANGED <<workerVars, riffVars, tagVars, ctlVars>>

\* the version seed is computed from stems and the pair is returned
ScanReturn ==
    /\ sret = "seed"
    /\ sseed' = <<version_seed_of(sstems)>>
    /\ sret' = "returned"
    /\ UNCHANGED <<sfiles, spos, sindex, sstems, flac_available, sglob>>
    /\ UNCHANGED <<workerVars, riffVars, tagVars, ctlVars>>

InitScan ==
    /\ dir = {}
    /\ pc = "idle"
    /\ mode = NoMode
    /\ budget = 0
    /\ NoLine
    /\ issued = {}
    /\ firstBase = [id \in Ids |-> NoBase]
    /\ wav_jobs = {}
    /\ did = {}
    /\ RiffIdle
    /\ TagIdle
    /\ ScanIdle
    /\ CtlIdle

NextScan ==
    \/ ScanBegin
    \/ ScanStep
    \/ ScanGlobFails
    \/ ScanWalked
    \/ ScanReturn

SpecScan == InitScan /\ [][NextScan]_vars

(***************************************************************************)
(* Pause, Stop and the phases of download_worker.                          *)
(* cpc: "idle" no run started; "count" the loop that counts the clips;     *)
(* "lines" top of the processing loop over the lines; "clip" top of the    *)
(* loop over the clips of a line; "tagging" embed_tags_full_rewrite_mp3 is *)
(* running on the MP3 just saved; "plindex" after the clips of a line;     *)
(* "master" after the lines; "wavgate" before the WAV phase; "wav" top of  *)
(* the loop over the WAV jobs; "wavpage" the song page is open; "wavtag"   *)
(* embed_tags_full_rewrite_wav is running on the WAV just saved; "finish"  *)
(* before _finish_ui; "done" the worker returned; "fatal" the worker ended *)
(* in "[FATAL] download_worker crashed".                                   *)
(***************************************************************************)
\* what an input line resolves to: "pl" a playlist of two clips; "song" one
\* clip (fetch_playlist raises HTTPError, fetch_clip answers); "flaky" a line
\* that resolves while the clips are counted and whose fetch fails in the
\* processing loop; "bad" a line that never resolves (no ID in the text:
\* extract_id raises ValueError, or an ID both fetches fail for)
LineKinds == {"pl", "song", "flaky", "bad"}

LineLists == UNION { [1..n -> LineKinds] : n \in 1..MaxLines }

\* the clips of a line after the allocation loop
ClipsOf(kind) ==
    IF kind = "pl" THEN << [id |-> "a", base |-> "A V1"], [id |-> "b", base |-> "B V1"] >>
    ELSE IF kind = "song" THEN << [id |-> "a", base |-> "A V1"] >>
    ELSE <<>>

\* mp3_expected: <audio_dir>/<file_base>.mp3
mp3_expected(c) == [stem |-> c.base, ext |-> "mp3"]

\* a WAV named after the clip id
wav_named_by_id(c) == [stem |-> c.id, ext |-> "wav"]

\* wav_expected: <audio_dir>/<file_base>.wav
wav_expected(c) == [stem |-> c.base, ext |-> "wav"]

Ev(ev, line, id, stem) == [ev |-> ev, line |-> line, id |-> id, stem |-> stem]

\* the worker thread is alive
Alive == cpc \notin {"idle", "done", "fatal"}

\* every position of the worker
AllPoints ==
    {"count", "lines", "clip", "tagging", "plindex", "master", "wavgate",
     "wav", "wavpage", "wavtag", "finish"}

\* the positions at which the worker calls _wait_if_paused_or_stopped
WaitPoints == {"count", "lines", "clip", "wav", "wavpage"}

\* a wait loop that tests the stop flag only after the pause is over
SleepingIgnoresStop == cpc \in WaitPoints /\ pause_event

\* _wait_if_paused_or_stopped keeps the worker in time.sleep(0.1)
Sleeping == cpc \in WaitPoints /\ pause_event /\ ~stop_event

\* _wait_if_paused_or_stopped returns False
Stopped == cpc \in WaitPoints /\ ~Sleeping /\ stop_event

\* _wait_if_paused_or_stopped returns True, or the position has no wait
Proceeds == ~Sleeping /\ ~Stopped

\* the positions at which the worker has read a flag, this step included
Observed == IF cpc \in WaitPoints THEN cobs \cup {cpc} ELSE cobs

\* toggle_pause
TogglePause ==
    /\ Alive
    /\ pause_event' = ~pause_event
    /\ UNCHANGED <<stop_event, pressed>>
    /\ UNCHANGED <<cpc, lines, copts, line_i, cclips, clip_i, all_clips, jobs,
                   job_i, cfiles, cdid, cobs, clog>>
    /\ UNCHANGED <<workerVars, riffVars, tagVars, scanVars>>

\* request_stop
RequestStop ==
    /\ Alive
    /\ stop_event' = TRUE
    /\ pause_event' = FALSE
    /\ pressed' = (pressed \/ pause_event)
    /\ UNCHANGED <<cpc, lines, copts, line_i, cclips, clip_i, all_clips, jobs,
                   job_i, cfiles, cdid, cobs, clog>>
    /\ UNCHANGED <<workerVars, riffVars, tagVars, scanVars>>

\* start_download: both flags cleared, the worker thread started
CtlStart ==
    /\ cpc = "idle"
    /\ \E ls \in LineLists, w \in BOOLEAN, x \in BOOLEAN :
          /\ lines' = ls
          /\ copts' = [wav |-> w, index |-> x]
    /\ stop_event' = FALSE
    /\ pause_event' = FALSE
    /\ cpc' = "count"
    /\ line_i' = 1
    /\ cdid' = "started"
    /\ UNCHANGED <<cclips, clip_i, all_clips, jobs, job_i, cfiles, cobs, clog,
                   pressed>>
    /\ UNCHANGED <<workerVars, riffVars, tagVars, scanVars>>

\* the counting loop is left by "break"
CountStopped ==
    /\ cpc = "count"
    /\ Stopped
    /\ cpc' = "lines"
    /\ line_i' = 1
    /\ cdid' = "break"
    /\ cobs' = Observed
    /\ UNCHANGED <<stop_event, pause_event, pressed, lines, copts, cclips,
                   clip_i, all_clips, jobs, job_i, cfiles, clog>>
    /\ UNCHANGED <<workerVars, riffVars, tagVars, scanVars>>

\* one iteration of the counting loop: the line resolves and its clips are
\* counted, or the call in the except clause raises as well and the
\* exception leaves download_worker through its outer handler
CountLine ==
    /\ cpc = "count"
    /\ Proceeds
    /\ IF lines[line_i] = "bad"
       THEN /\ cpc' = "fatal"
            /\ cdid' = "crashed"
            /\ clog' = Append(clog, Ev("count_error", line_i, NoId, ""))
            /\ UNCHANGED line_i
       ELSE /\ cpc' = IF line_i < Len(lines) THEN "count" ELSE "lines"
            /\ line_i' = IF line_i < Len(lines) THEN line_i + 1 ELSE 1
            /\ cdid' = "counted"
            /\ UNCHANGED clog
    /\ cobs' = Observed
    /\ UNCHANGED <<stop_event, pause_event, pressed, lines, copts, cclips,
                   clip_i, all_clips, jobs, job_i, cfiles>>
    /\ UNCHANGED <<workerVars, riffVars, tagVars, scanVars>>

\* the processing loop over the lines is left by "break"
LineStopped ==
    /\ cpc = "lines"
    /\ Stopped
    /\ cpc' = "master"
    /\ cdid' = "break"
    /\ cobs' = Observed
    /\ UNCHANGED <<stop_event, pause_event, pressed, lines, copts, line_i,
                   cclips, clip_i, all_clips, jobs, job_i, cfiles, clog>>
    /\ UNCHANGED <<workerVars, riffVars, tagVars, scanVars>>

\* one line is resolved: its clips are fetched and named, or extract_id or
\* the fetch raises, "[ERROR] processing input" is logged and the loop
\* continues with the next line
LineBegin ==
    /\ cpc = "lines"
    /\ Proceeds
    /\ IF lines[line_i] \in {"bad", "flaky"}
       THEN /\ cpc' = IF line_i < Len(lines) THEN "lines" ELSE "master"
            /\ line_i' = line_i + 1
            /\ clog' = Append(clog, Ev("line_error", line_i, NoId, ""))
            /\ cdid' = "line_error"
            /\ UNCHANGED <<cclips, clip_i>>
       ELSE /\ cclips' = ClipsOf(lines[line_i])
            /\ clip_i' = 1
            /\ cpc' = "clip"
            /\ cdid' = "fetched"
            /\ UNCHANGED <<line_i, clog>>
    /\ cobs' = Observed
    /\ UNCHANGED <<stop_event, pause_event, pressed, lines, copts, all_clips,
                   jobs, job_i, cfiles>>
    /\ UNCHANGED <<workerVars, riffVars, tagVars, scanVars>>

\* the loop over the clips of a line is left by "break"
ClipStopped ==
    /\ cpc = "clip"
    /\ Stopped
    /\ cpc' = "plindex"
    /\ cdid' = "break"
    /\ cobs' = Observed
    /\ UNCHANGED <<stop_event, pause_event, pressed, lines, copts, line_i,
                   cclips, clip_i, all_clips, jobs, job_i, cfiles, clog>>
    /\ UNCHANGED <<workerVars, riffVars, tagVars, scanVars>>

\* the rest of a clip after its MP3: text files, the WAV job, "done += 1"
ClipRest(c) ==
    /\ jobs' = IF copts.wav /\ c.id # NoId /\ wav_expected(c) \notin cfiles
               THEN Append(jobs, [id |-> c.id, out_wav |-> wav_expected(c)])
               ELSE jobs
    /\ clog' = Append(clog, Ev("clip", line_i, c.id, mp3_expected(c).stem))
    /\ cpc' = IF clip_i < Len(cclips) THEN "clip" ELSE "plindex"
    /\ clip_i' = clip_i + 1

\* a clip is begun: its MP3 exists ("[DUP] ... skip"), cannot be downloaded,
\* or is saved and its tagging starts
ClipBegin ==
    /\ cpc = "clip"
    /\ Proceeds
    /\ LET c == cclips[clip_i]
       IN  \/ /\ mp3_expected(c) \in cfiles
              /\ cdid' = "dup"
              /\ ClipRest(c)
              /\ UNCHANGED cfiles
           \/ /\ mp3_expected(c) \notin cfiles
              /\ cdid' = "no_mp3"
              /\ ClipRest(c)
              /\ UNCHANGED cfiles
           \/ /\ mp3_expected(c) \notin cfiles
              /\ cfiles' = cfiles \cup {mp3_expected(c)}
              /\ cpc' = "tagging"
              /\ cdid' = "mp3_saved"
              /\ UNCHANGED <<jobs, clog, clip_i>>
    /\ cobs' = Observed
    /\ UNCHANGED <<stop_event, pause_event, pressed, lines, copts, line_i,
                   cclips, all_clips, job_i>>
    /\ UNCHANGED <<workerVars, riffVars, tagVars, scanVars>>

\* embed_tags_full_rewrite_mp3 returns, the tags written or the failure
\* logged; the rest of the clip follows
TagEnd ==
    /\ cpc = "tagging"
    /\ Proceeds
    /\ \E r \in {"tagged", "tag_failed"} :
          cdid' = IF stop_event \/ pause_event THEN "flagged_" \o r ELSE r
    /\ ClipRest(cclips[clip_i])
    /\ cobs' = Observed
    /\ UNCHANGED <<stop_event, pause_event, pressed, lines, copts, line_i,
                   cclips, all_clips, job_i, cfiles>>
    /\ UNCHANGED <<workerVars, riffVars, tagVars, scanVars>>

\* after the clips of a line: the playlist index is updated unless Stop was
\* requested, and the clips are added to all_clips; an exception of the
\* update is handled like any other of the line
PlaylistIndex ==
    /\ cpc = "plindex"
    /\ Proceeds
    /\ IF copts.index /\ ~stop_event
       THEN \/ /\ clog' = Append(clog, Ev("plindex", line_i, NoId, ""))
               /\ all_clips' = all_clips + Len(cclips)
               /\ cdid' = "plindex"
            \/ /\ clog' = Append(clog, Ev("line_error", line_i, NoId, ""))
               /\ cdid' = "line_error"
               /\ UNCHANGED all_clips
       ELSE /\ all_clips' = all_clips + Len(cclips)
            /\ cdid' = "no_plindex"
            /\ UNCHANGED clog
    /\ cobs' = IF copts.index THEN cobs \cup {cpc} ELSE cobs
    /\ cpc' = IF line_i < Len(lines) THEN "lines" ELSE "master"
    /\ line_i' = line_i + 1
    /\ cclips' = <<>>
    /\ clip_i' = 1
    /\ UNCHANGED <<stop_event, pause_event, pressed, lines, copts, jobs, job_i,
                   cfiles>>
    /\ UNCHANGED <<workerVars, riffVars, tagVars, scanVars>>

\* after the lines: the master index is updated unless Stop was requested;
\* an exception of the update leaves download_worker
MasterIndex ==
    /\ cpc = "master"
    /\ Proceeds
    /\ IF copts.index /\ all_clips > 0 /\ ~stop_event
       THEN \/ /\ clog' = Append(clog, Ev("master", 0, NoId, ""))
               /\ cpc' = "wavgate"
               /\ cdid' = "master"
            \/ /\ clog' = Append(clog, Ev("master_error", 0, NoId, ""))
               /\ cpc' = "fatal"
               /\ cdid' = "crashed"
       ELSE /\ cpc' = "wavgate"
            /\ cdid' = "no_master"
            /\ UNCHANGED clog
    /\ cobs' = IF copts.index /\ all_clips > 0 THEN cobs \cup {cpc} ELSE cobs
    /\ UNCHANGED <<stop_event, pause_event, pressed, lines, copts, line_i,
                   cclips, clip_i, all_clips, jobs, job_i, cfiles>>
    /\ UNCHANGED <<workerVars, riffVars, tagVars, scanVars>>

\* "if effective_do_wav and not self.stop_event.is_set()": Playwright is
\* missing, there is no job, Chrome cannot be launched or is signed out, or
\* the loop over the jobs is entered
WavGate ==
    /\ cpc = "wavgate"
    /\ Proceeds
    /\ IF copts.wav /\ ~stop_event /\ jobs # <<>>
       THEN \/ cpc' = "wav" /\ cdid' = "launched"
            \/ cpc' = "finish" /\ cdid' = "wav_error"
       ELSE cpc' = "finish" /\ cdid' = "no_wav"
    /\ job_i' = 1
    /\ cobs' = IF copts.wav THEN cobs \cup {cpc} ELSE cobs
    /\ UNCHANGED <<stop_event, pause_event, pressed, lines, copts, line_i,
                   cclips, clip_i, all_clips, jobs, cfiles, clog>>
    /\ UNCHANGED <<workerVars, riffVars, tagVars, scanVars>>

\* the loop over the WAV jobs is left by "break", before a job or after its
\* song page has loaded
WavStopped ==
    /\ cpc \in {"wav", "wavpage"}
    /\ Stopped
    /\ cpc' = "finish"
    /\ cdid' = "break"
    /\ cobs' = Observed
    /\ UNCHANGED <<stop_event, pause_event, pressed, lines, copts, line_i,
                   cclips, clip_i, all_clips, jobs, job_i, cfiles, clog>>
    /\ UNCHANGED <<workerVars, riffVars, tagVars, scanVars>>

\* a WAV job is begun: out_wav exists ("SKIP (exists)"), or the song page is
\* opened, which may fail
WavJobBegin ==
    /\ cpc = "wav"
    /\ Proceeds
    /\ \/ /\ jobs[job_i].out_wav \in cfiles
          /\ cdid' = "wav_skip"
          /\ cpc' = IF job_i < Len(jobs) THEN "wav" ELSE "finish"
          /\ job_i' = job_i + 1
       \/ /\ jobs[job_i].out_wav \notin cfiles
          /\ cdid' = "wav_failed"
          /\ cpc' = IF job_i < Len(jobs) THEN "wav" ELSE "finish"
          /\ job_i' = job_i + 1
       \/ /\ jobs[job_i].out_wav \notin cfiles
          /\ cdid' = "wav_open"
          /\ cpc' = "wavpage"
          /\ UNCHANGED job_i
    /\ cobs' = Observed
    /\ UNCHANGED <<stop_event, pause_event, pressed, lines, copts, line_i,
                   cclips, clip_i, all_clips, jobs, cfiles, clog>>
    /\ UNCHANGED <<workerVars, riffVars, tagVars, scanVars>>

\* the download is triggered in the page: it fails or times out, or the
\* file is saved as out_wav and its tagging starts
WavDownload ==
    /\ cpc = "wavpage"
    /\ Proceeds
    /\ \/ /\ cdid' = "wav_failed"
          /\ cpc' = IF job_i < Len(jobs) THEN "wav" ELSE "finish"
          /\ job_i' = job_i + 1
          /\ UNCHANGED <<cfiles, clog>>
       \/ /\ cdid' = "wav_saved"
          /\ cfiles' = cfiles \cup {jobs[job_i].out_wav}
          /\ clog' = Append(clog, Ev("wav", 0, jobs[job_i].id,
                                     jobs[job_i].out_wav.stem))
          /\ cpc' = "wavtag"
          /\ UNCHANGED job_i
    /\ cobs' = Observed
    /\ UNCHANGED <<stop_event, pause_event, pressed, lines, copts, line_i,
                   cclips, clip_i, all_clips, jobs>>
    /\ UNCHANGED <<workerVars, riffVars, tagVars, scanVars>>

\* embed_tags_full_rewrite_wav returns: the ID3 chunk and the RIFF INFO
\* chunk written, or the failure logged
WavTagEnd ==
    /\ cpc = "wavtag"
    /\ Proceeds
    /\ \E r \in {"tagged", "tag_failed"} :
          cdid' = IF stop_event \/ pause_event THEN "flagged_" \o r ELSE r
    /\ cpc' = IF job_i < Len(jobs) THEN "wav" ELSE "finish"
    /\ job_i' = job_i + 1
    /\ cobs' = Observed
    /\ UNCHANGED <<stop_event, pause_event, pressed, lines, copts, line_i,
                   cclips, clip_i, all_clips, jobs, cfiles, clog>>
    /\ UNCHANGED <<workerVars, riffVars, tagVars, scanVars>>

\* _finish_ui is scheduled and download_worker returns
Finish ==
    /\ cpc = "finish"
    /\ Proceeds
    /\ cpc' = "done"
    /\ cdid' = "finished"
    /\ UNCHANGED <<stop_event, pause_event, pressed, lines, copts, line_i,
                   cclips, clip_i, all_clips, jobs, job_i, cfiles, cobs, clog>>
    /\ UNCHANGED <<workerVars, riffVars, tagVars, scanVars>>

\* the steps of the worker thread
Worker ==
    \/ CountStopped
    \/ CountLine
    \/ LineStopped
    \/ LineBegin
    \/ ClipStopped
    \/ ClipBegin
    \/ TagEnd
    \/ PlaylistIndex
    \/ MasterIndex
    \/ WavGate
    \/ WavStopped
    \/ WavJobBegin
    \/ WavDownload
    \/ WavTagEnd
    \/ Finish

InitCtl ==
    /\ dir = {}
    /\ pc = "idle"
    /\ mode = NoMode
    /\ budget = 0
    /\ NoLine
    /\ issued = {}
    /\ firstBase = [id \in Ids |-> NoBase]
    /\ wav_jobs = {}
    /\ did = {}
    /\ RiffIdle
    /\ TagIdle
    /\ ScanIdle
    /\ CtlIdle

NextCtl ==
    \/ CtlStart
    \/ TogglePause
    \/ RequestStop
    \/ CountStopped
    \/ CountLine
    \/ LineStopped
    \/ LineBegin
    \/ ClipStopped
    \/ ClipBegin
    \/ TagEnd
    \/ PlaylistIndex
    \/ MasterIndex
    \/ WavGate
    \/ WavStopped
    \/ WavJobBegin
    \/ WavDownload
    \/ WavTagEnd
    \/ Finish

SpecCtl == InitCtl /\ [][NextCtl]_vars

\* the worker thread is scheduled again and again, and every call it makes
\* (network, disk, time.sleep) returns
SpecCtlFair == SpecCtl /\ WF_vars(Worker)

(***************************************************************************)
(* Claims about the allocation of base filenames.                          *)
(***************************************************************************)
\* the clips of the current line that the allocation loop has named
Allocated == {j \in 1..Len(clips) : clips[j].index_title # NoBase}
\* the raw title the allocation loop derives for clip j
RawOf(j) == AllocRaw(clips[j].id, clips[j].fetched)
\* no clip has been processed since the scan: dir is the scanned directory
AtScan == pc = "alloc" \/ (pc = "proc" /\ idx = 1)

\* C1 (as stated): an identifier that was allocated a base gets that same
\* base in every later scan-and-allocation over the directory.
C1_SameBaseInEveryRun ==
    \A j \in Allocated :
        clips[j].id # NoId => clips[j].index_title = firstBase[clips[j].id]

\* C1 (amended): in every scan-and-allocation at which the directory holds
\* an MP3 or FLAC file carrying the identifier, the identifier is allocated
\* the stem of such a file (of an MP3 if one carries it), whatever title
\* the clip has and whatever other clips are in the line.
C1_StableOnceMaterialized ==
    AtScan =>
        \A j \in Allocated :
            LET id == clips[j].id
                mp3s == {f \in Carriers(dir, id) : f.ext = "mp3"}
            IN  (id # NoId /\ Carriers(dir, id) # {}) =>
                    /\ clips[j].index_title \in CarrierStems(dir, id)
                    /\ mp3s # {} => clips[j].index_title \in {f.stem : f \in mp3s}

\* witness of C1: identifier b, first named "b V1" from its empty title, is
\* named "b V1" again in a later line where its title is "S", because the
\* MP3 written under that name carries it
C1_Witness ==
    /\ AtScan
    /\ \E j \in Allocated :
          /\ clips[j].id = "b"
          /\ clips[j].fetched = <<"?", "S", " ">>
          /\ clips[j].index_title = <<"b", " ", "V", "1">>
          /\ firstBase["b"] = <<"b", " ", "V", "1">>
          /\ File(<<"b", " ", "V", "1">>, "mp3", "b") \in dir

\* C2: allocating a clip whose identifier is in the identity index with a
\* known base yields exactly that base and leaves every version counter as
\* it was, and so does any further allocation of that identifier.
C2_IndexedAllocationIsStable ==
    [][(pc = "alloc" /\ InIndex(clips[idx].id, existing_by_id)) =>
          /\ clips'[idx].index_title = existing_by_id[clips[idx].id].base
          /\ versions' = versions
          /\ \A t \in {c.title : c \in FetchedClips} :
                LET again == Allocate(clips[idx].id, t, existing_by_id', versions')
                IN  /\ again.base = clips'[idx].index_title
                    /\ again.versions = versions']_vars

\* witness of C2: a line of two clips, both named from the index, with the
\* counters still equal to the scanned seed
C2_Witness ==
    /\ pc = "proc"
    /\ Len(clips) = 2
    /\ \A j \in 1..2 :
          /\ InIndex(clips[j].id, existing_by_id)
          /\ clips[j].index_title = existing_by_id[clips[j].id].base
    /\ versions = version_seed
    /\ version_seed # <<>>

\* C3: within one scan-and-allocation, the k-th clip that is not in the
\* index and has raw title r is named "r V<s+k>", s being the scanned seed
\* of r (0 if none).
C3_KthFreshClipGetsSeedPlusK ==
    \A j \in Allocated :
        ~InIndex(clips[j].id, existing_by_id) =>
            LET s == IF RawOf(j) \in DOMAIN version_seed
                     THEN version_seed[RawOf(j)] ELSE 0
                k == Cardinality({i \in 1..j :
                        /\ ~InIndex(clips[i].id, existing_by_id)
                        /\ RawOf(i) = RawOf(j)})
            IN  clips[j].index_title = RawOf(j) \o <<" ", "V">> \o IntToStr(s + k)

\* witness of C3: "S v03" was scanned (seed 3) and two new clips titled "S"
\* are named "S V4" and "S V5" in call order
C3_Witness ==
    /\ Len(clips) = 2
    /\ version_seed = (<<"S">> :> 3)
    /\ clips[1].id # clips[2].id
    /\ clips[1].index_title = <<"S", " ", "V", "4">>
    /\ clips[2].index_title = <<"S", " ", "V", "5">>

C5_VersionsNeverReused ==
    /\ (pc \in {"alloc", "proc"}) =>
          \A p \in issued : VersionOf(versions, p[1]) >= p[2]
    /\ \A p, q \in issued : (p[1] = q[1] /\ p[2] = q[2]) => p = q

(***************************************************************************)
(* Claims about the RIFF rewrite (checked under SpecRiff).                 *)
(***************************************************************************)
\* the chunks of a file as a reader walks them from offset pos: 8-byte
\* header, declared payload, pad byte when the size is odd; the last chunk
\* ends with the file when the file is shorter than it declares
RECURSIVE ParseChunks(_, _)
ParseChunks(f, pos) ==
    IF Len(f) - pos < 8 THEN <<>>
    ELSE LET size == UnLE32(SubSeq(f, pos + 5, pos + 8))
             end == Min(pos + 8 + size + (size % 2), Len(f))
         IN  <<SubSeq(f, pos + 1, end)>> \o ParseChunks(f, end)

ChunksOf(f) == ParseChunks(f, 12)

IsInfoChunk(c) ==
    /\ SubSeq(c, 1, 4) = LIST
    /\ UnLE32(SubSeq(c, 5, 8)) >= 4
    /\ Len(c) >= 12
    /\ SubSeq(c, 9, 12) = INFO

NonInfo(cs) == SelectSeq(cs, LAMBDA c : ~IsInfoChunk(c))

\* bytes left after the last chunk (fewer than 8)
TrailingLen(f) == Len(f) - 12 - Len(Concat(ChunksOf(f)))

BadMagic(f) ==
    \/ Len(f) < 12
    \/ SubSeq(f, 1, 4) # RIFF
    \/ SubSeq(f, 9, 12) # WAVE

\* f is a fully written rewrite: header, chunks, the new INFO chunk as its
\* last bytes and the size field patched
Complete(f, inf) ==
    /\ Len(f) >= 12 + Len(inf)
    /\ ~BadMagic(f)
    /\ SubSeq(f, Len(f) - Len(inf) + 1, Len(f)) = inf
    /\ UnLE32(SubSeq(f, 5, 8)) = Len(f) - 8

\* C6: in every intermediate state of the rewrite and after an error or an
\* interruption at any step the file at the WAV path is the original; once
\* replaced it is a fully written rewrite; the temporary file is fully
\* written before the replace.
C6_OriginalOrCompleteRewrite ==
    /\ rpc # "done" => wav = orig
    /\ rpc = "written" => Complete(tmp, info)
    /\ rpc = "done" => Complete(wav, info)

\* C6 witness: the process died with the temporary file partly written and
\* the WAV path still holds the original.
C6_Witness ==
    /\ rpc = "killed"
    /\ tmp # NoFile
    /\ Len(tmp) > 12
    /\ ~Complete(tmp, info)
    /\ wav = orig
    /\ ChunksOf(orig) # <<>>

\* C7 (as stated): after every rewrite the chunk sequence of the output is
\* that of the input without its LIST/INFO chunks, every other chunk
\* byte-identical and in order, followed by the new INFO chunk as the last
\* chunk.
C7_ChunkSequencePreserved ==
    rpc = "done" => ChunksOf(wav) = NonInfo(ChunksOf(orig)) \o <<info>>

\* C8: after a successful rewrite the little-endian size field at offset 4
\* equals the file length minus 8.
C8_SizeFieldIsLengthMinus8 ==
    rpc = "done" => /\ Len(wav) >= 12
                    /\ UnLE32(SubSeq(wav, 5, 8)) = Len(wav) - 8

\* C8 witness: a second rewrite replaced the file and the size field had to
\* change.
C8_Witness ==
    /\ rpc = "done"
    /\ rewrites = 2
    /\ UnLE32(SubSeq(orig, 5, 8)) # Len(wav) - 8
    /\ info # make_riff_info_chunk(NoFields)

\* C9: a file that does not begin with the 12-byte RIFF/WAVE header never
\* gets past the header check: the rewrite raises with nothing copied to
\* the temporary file and the original bytes unchanged.
C9_BadMagicRaisesBeforeCopy ==
    BadMagic(orig) =>
        /\ rpc \in {"idle", "opened", "bad_magic", "failed", "killed"}
        /\ wav = orig
        /\ tmp \in {NoFile, <<>>}

\* C9 witness: a "RIFF" file of another form type was rejected.
C9_Witness ==
    /\ rpc = "bad_magic"
    /\ Len(orig) >= 12
    /\ SubSeq(orig, 1, 4) = RIFF
    /\ SubSeq(orig, 9, 12) # WAVE
    /\ wav = orig

\* C10 (as stated): a WAV whose chunk stream ends in 1 to 7 bytes of a chunk
\* header makes the rewrite fail and the original is never replaced.
C10_TruncatedHeaderFails ==
    (~BadMagic(orig) /\ TrailingLen(orig) \in 1..7) =>
        /\ rpc # "done"
        /\ wav = orig

\* C10 (amended): such a WAV does not make the rewrite fail: the loop ends
\* at the short header, and when the rewrite completes the original is
\* replaced by a file holding the non-INFO chunks and the new INFO chunk,
\* without the trailing bytes; until the replace the original is untouched.
C10_TruncatedHeaderDropped ==
    (~BadMagic(orig) /\ TrailingLen(orig) \in 1..7) =>
        /\ rpc # "bad_magic"
        /\ rpc # "done" => wav = orig
        /\ rpc = "done" =>
              /\ ChunksOf(wav) = NonInfo(ChunksOf(orig)) \o <<info>>
              /\ TrailingLen(wav) = 0

\* C10 witness: the rewrite of a file with trailing header bytes completed.
C10_Witness ==
    /\ rpc = "done"
    /\ ~BadMagic(orig)
    /\ TrailingLen(orig) \in 1..7
    /\ Len(ChunksOf(orig)) >= 1

\* the subchunks of an INFO list as a reader finds them from offset pos:
\* id, declared size, that many bytes of data, the pad byte when odd
RECURSIVE InfoEntries(_, _)
InfoEntries(b, pos) ==
    IF Len(b) - pos < 8 THEN <<>>
    ELSE LET size == UnLE32(SubSeq(b, pos + 5, pos + 8))
             dataEnd == Min(pos + 8 + size, Len(b))
             end == pos + 8 + size + (size % 2)
         IN  <<[cid |-> SubSeq(b, pos + 1, pos + 4), size |-> size,
                data |-> SubSeq(b, pos + 9, dataEnd),
                pad |-> SubSeq(b, dataEnd + 1, Min(end, Len(b)))]>>
                 \o InfoEntries(b, end)

\* the entries the fields call for: one per non-empty field, in the fixed
\* order, the value's UTF-8 bytes and one zero byte as data
ExpectedEntries(fields) ==
    LET set == SelectSeq(InfoTags, LAMBDA t : fields[t.key] # <<>>)
    IN  [i \in 1..Len(set) |->
            LET enc == Utf8(fields[set[i].key])
            IN  [cid |-> set[i].cid, size |-> Len(enc) + 1,
                 data |-> enc \o <<0>>,
                 pad |-> IF (Len(enc) + 1) % 2 = 1 THEN <<0>> ELSE <<>>]]

RECURSIVE EntriesLen(_)
EntriesLen(es) ==
    IF es = <<>> THEN 0
    ELSE 8 + Len(Head(es).data) + Len(Head(es).pad) + EntriesLen(Tail(es))

\* C26: the built INFO chunk is "LIST", its size, "INFO" and one entry per
\* non-empty field, none for an empty one, in the order title, album, track,
\* genre, comment, date; an entry declares the encoded value length plus
\* one terminator byte and is followed by one zero pad byte exactly when
\* that length is odd; the entries fill the chunk and its length is even.
C26_InfoChunkLayout ==
    \A fields \in FieldSets :
        (rpc # "idle" /\ info = make_riff_info_chunk(fields)) =>
            /\ SubSeq(info, 1, 4) = LIST
            /\ UnLE32(SubSeq(info, 5, 8)) = Len(info) - 8
            /\ SubSeq(info, 9, 12) = INFO
            /\ InfoEntries(info, 12) = ExpectedEntries(fields)
            /\ 12 + EntriesLen(InfoEntries(info, 12)) = Len(info)
            /\ Len(info) % 2 = 0

\* C26 witness: a chunk was built from six fields, with empty fields left
\* out of another; it holds padded and unpadded entries.
C26_Witness ==
    /\ rpc = "done"
    /\ Len(InfoEntries(info, 12)) = 6
    /\ \E i, j \in 1..6 : /\ InfoEntries(info, 12)[i].pad = <<0>>
                          /\ InfoEntries(info, 12)[j].pad = <<>>
    /\ rewrites = 2

\* f from offset pos on is a sequence of whole chunks: each header and
\* its declared payload and pad byte lie within the file, up to its end
RECURSIVE TilesFrom(_, _)
TilesFrom(f, pos) ==
    \/ pos = Len(f)
    \/ /\ Len(f) - pos >= 8
       /\ LET size == UnLE32(SubSeq(f, pos + 5, pos + 8))
              end == pos + 8 + size + (size % 2)
          IN  /\ end <= Len(f)
              /\ TilesFrom(f, end)

\* C30 (as stated): whenever the rewrite replaces the file, for any input
\* that passes the magic check, the chunks of the result tile the file
\* exactly, every declared size fits within the file, and the appended
\* INFO chunk is a top-level chunk, the last one.
C30_ResultIsWellFormed ==
    (rpc = "done" /\ ~BadMagic(orig)) =>
        /\ TilesFrom(wav, 12)
        /\ ChunksOf(wav) # <<>>
        /\ ChunksOf(wav)[Len(ChunksOf(wav))] = info


(***************************************************************************)
(* Claims about tagging (SpecTag).                                         *)
(***************************************************************************)
\* the keys under which an identifier frame or field is stored
IdKeys == WxxxIdKeys \cup TxxxIdKeys \cup {"ID"}

\* a FILL_MISSING call is running or was the last call to return
FillCall ==
    \/ tpc \in {"read", "save", "finally"}
    \/ tpc = "returned" /\ tret \in {"true", "false", "raised"}
FillReturned == tpc = "returned" /\ tret \in {"true", "false", "raised"}
FullDone == tpc = "returned" /\ tret = "done"

\* C11: during and after a FILL_MISSING call every frame other than the
\* identifier frames is the frame the file carried before the call: none is
\* added, none removed, none changed (MP3 and FLAC alike).
C11_FillTouchesOnlyIdentifierFrames ==
    FillCall =>
        \A k \in ((DOMAIN tfile.frames) \cup (DOMAIN tpre.frames)) \ IdKeys :
            /\ k \in DOMAIN tfile.frames
            /\ k \in DOMAIN tpre.frames
            /\ tfile.frames[k] = tpre.frames[k]

\* a fill saved both identifier frames into a file that carries other frames
C11_Witness ==
    /\ FillReturned
    /\ tret = "true"
    /\ tsaves = 1
    /\ "TPE1" \in DOMAIN tpre.frames
    /\ ~get_id_wxxx_frame(tpre.frames)
    /\ {"WXXX:ID", "TXXX:ID", "TPE1"} \subseteq DOMAIN tfile.frames

BothPresentBefore ==
    /\ tpre.kind = "mp3"
    /\ tpre.hdr = "ok"
    /\ get_id_wxxx_frame(tpre.frames)
    /\ get_id_txxx_frame(tpre.frames)

\* C13: a fill on an MP3 that already carries both identifier frames never
\* reaches the save, leaves the frames as they were and returns False.
C13_BothPresentMeansNoSave ==
    (FillCall /\ BothPresentBefore) =>
        /\ tpc # "save"
        /\ tsaves = 0
        /\ tfile.frames = tpre.frames
        /\ tpc = "returned" => tret = "false"

\* a fill with a clip id returned False from a file whose URL frame has a
\* lower-case description
C13_Witness ==
    /\ FillReturned
    /\ BothPresentBefore
    /\ "WXXX:id" \in DOMAIN tpre.frames
    /\ captured # NoTimes
    /\ tret = "false"
    /\ utime = "ok"

\* the file carried the identifier before the call (both frames for MP3,
\* a non-empty ID field for FLAC)
IdPresentBefore ==
    IF tpre.kind = "mp3" THEN BothPresentBefore
    ELSE tpre.hdr = "ok" /\ vorbis_has_nonempty(tpre.frames, "ID")

\* C14 as stated: a fill always ends with a boolean; it returns False only
\* if the identifier frames were already present.
C14_AlwaysBooleanFalseOnlyIfPresent ==
    FillReturned =>
        /\ tret \in {"true", "false"}
        /\ tret = "false" => IdPresentBefore

\* C14 amended: a fill ends with True, with False, or with the exception of
\* the read or the save, which leaves the file's frames as they were; it
\* returns True exactly after a save that left both identifier frames (the
\* ID field) in the file, never one frame of two that were missing; it
\* returns False when the identifier was present, or without reading the
\* file when the clip id is empty or FLAC support is missing.
C14_BooleanUnlessReadOrSaveRaises ==
    /\ FillReturned =>
          /\ tret = "true" =>
                /\ tsaves = 1
                /\ IF tfile.kind = "mp3"
                   THEN get_id_wxxx_frame(tfile.frames)
                            /\ get_id_txxx_frame(tfile.frames)
                   ELSE vorbis_has_nonempty(tfile.frames, "ID")
          /\ tret = "false" =>
                /\ tsaves = 0
                /\ tfile.frames = tpre.frames
                /\ IdPresentBefore \/ captured = NoTimes
          /\ tret = "raised" =>
                /\ tsaves = 0
                /\ tfile.frames = tpre.frames
                /\ captured # NoTimes
    /\ (FillCall /\ tpre.kind = "mp3") =>
          (get_id_wxxx_frame(tfile.frames) = get_id_wxxx_frame(tpre.frames)
              /\ get_id_txxx_frame(tfile.frames) = get_id_txxx_frame(tpre.frames))
          \/ (get_id_wxxx_frame(tfile.frames) /\ get_id_txxx_frame(tfile.frames))

\* a fill added both frames to a file without tag header and returned True
C14_Witness ==
    /\ FillReturned
    /\ tret = "true"
    /\ tpre.kind = "mp3"
    /\ tpre.hdr = "none"
    /\ DOMAIN tfile.frames = {"WXXX:ID", "TXXX:ID"}
    /\ tfile.frames["WXXX:ID"] = <<Txt("b")>>
    /\ tfile.frames["TXXX:ID"] = <<Txt("b")>>

\* C15: after a FULL tagging that saved, reading the file back gives the
\* title, the playlist name, the relative index, the genre and the identifier
\* of the clip record; a non-empty identifier is read from the URL frame and
\* from the text frame alike.
C15_FullRoundTrip ==
    FullDone =>
        LET fr == tfile.frames
            clip == targ.clip
        IN  /\ tfile.hdr = "ok"
            /\ fr["TIT2"] = <<clip.title>>
            /\ fr["TALB"] = <<clip.playlist>>
            /\ StrToInt(fr["TRCK"][1]) = clip.rel_idx
            /\ (IF "TCON" \in DOMAIN fr THEN fr["TCON"][1] ELSE <<>>) = clip.tags
            /\ ExtractWxxx(fr) = clip.id
            /\ ExtractTxxx(fr) = clip.id
            /\ mp3_extract_clip_id([hdr |-> tfile.hdr, frames |-> fr]) = clip.id

\* a FULL tagging replaced another identifier and another title and wrote a
\* two-digit track
C15_Witness ==
    /\ FullDone
    /\ targ.clip.id = "b"
    /\ targ.clip.rel_idx = 12
    /\ tpre.hdr = "ok"
    /\ "WXXX:ID" \in DOMAIN tpre.frames
    /\ tpre.frames["WXXX:ID"] = <<Txt("a")>>
    /\ tfile.frames["TXXX:ID"] = <<Txt("b")>>
    /\ tfile.frames["TRCK"] = <<<<"1", "2">>>>

\* C16: after a FULL tagging that saved, the frames of the file are the
\* canonical set of the clip and the cover and nothing else, whatever the
\* file carried before.
C16_FullLeavesCanonicalSetOnly ==
    FullDone =>
        /\ tfile.frames = AddCanonical(NoFrames, targ.clip, targ.cover)
        /\ \A k \in DOMAIN tfile.frames :
              k \in {"TIT2", "TALB", "TRCK", "TCON", "USLT::eng", "TCOP",
                     "COMM::eng", "WXXX:ID", "TXXX:ID", "APIC:Cover"}

\* a FULL tagging of a clip without genre dropped the artist, the genre and
\* the legacy composer frame of the file
C16_Witness ==
    /\ FullDone
    /\ tpre.hdr = "ok"
    /\ {"TPE1", "TCON", "TCOM"} \subseteq DOMAIN tpre.frames
    /\ targ.clip.tags = <<>>
    /\ (DOMAIN tfile.frames) \cap {"TPE1", "TCON", "TCOM"} = {}

\* the text of frame k, empty when the frame is absent
FrameText(fr, k) == IF k \in DOMAIN fr THEN fr[k][1] ELSE <<>>

\* a FULL call on a WAV is over and has written the INFO chunk
InfoWritten == FullDone /\ tinfo # <<>>

\* the INFO fields other than the comment and the frames they go with
PlainInfoPairs ==
    { <<"title", "TIT2">>, <<"album", "TALB">>, <<"track", "TRCK">>,
      <<"genre", "TCON">>, <<"date", "TCOP">> }

\* C22 (as stated): for the same clip record each field of the INFO chunk
\* (title, album, track, genre, comment, date) carries the text of the frame
\* FULL tagging writes (TIT2, TALB, TRCK, TCON, COMM, TCOP).
C22_InfoFieldsEqualFrames ==
    InfoWritten =>
        \A pr \in PlainInfoPairs \cup { <<"comment", "COMM::eng">> } :
            tinfo[1][pr[1]] = FrameText(tfile.frames, pr[2])

\* C22 (amended): title, album, track, genre and date carry the text of
\* TIT2, TALB, TRCK, TCON and TCOP; the comment is the gpt text, "ID: <id>",
\* "Weight: ..." and "Creativity: ..." joined by " | ", which is the COMM
\* text only for a clip without identifier and with at most one slider.
C22_InfoFieldsEqualFramesButComment ==
    InfoWritten =>
        /\ \A pr \in PlainInfoPairs :
              tinfo[1][pr[1]] = FrameText(tfile.frames, pr[2])
        /\ tinfo[1].comment = info_comment(targ.clip)
        /\ (tinfo[1].comment = FrameText(tfile.frames, "COMM::eng"))
              <=> /\ targ.clip.id = NoId
                  /\ targ.clip.weight = Nil \/ targ.clip.creativity = Nil

\* C22 witness: a WAV was tagged from a record with genre, ISO date, gpt
\* text and both sliders; the INFO comment names the identifier.
C22_Witness ==
    /\ InfoWritten
    /\ tfile.kind = "wav"
    /\ targ.clip.id = "b"
    /\ tinfo[1].date = FormattedStamp
    /\ tinfo[1].genre = <<"rock">>
    /\ tinfo[1].comment # FrameText(tfile.frames, "COMM::eng")

\* C23 (as stated): a fill with a non-empty clip id on an MP3 in which
\* neither identifier slot holds a UUID, the frame being absent, empty or
\* not a UUID, ends with both slots holding the clip id.
C23_BothSlotsHoldTheIdentifier ==
    (/\ FillReturned
     /\ tret \in {"true", "false"}
     /\ tpre.kind = "mp3"
     /\ targ # NoId
     /\ ExtractWxxx(Loaded(tpre)) = NoId
     /\ ExtractTxxx(Loaded(tpre)) = NoId) =>
        /\ ExtractWxxx(tfile.frames) = targ
        /\ ExtractTxxx(tfile.frames) = targ

(***************************************************************************)
(* Claims about the directory scan (SpecScan).                             *)
(***************************************************************************)
\* the identifier the scan reads from the file at position i
CidAt(i) == extract_clip_id(sfiles[i], flac_available)

\* C17: the scan ends by returning, never by an exception; every file the
\* walk has passed that yields an identifier is in the index with its stem,
\* a file that yields none adds nothing, and unless the directory listing
\* itself failed the walk passes every file before the scan returns.
C17_ScanSkipsBadFilesAndGoesOn ==
    /\ sret \in {"none", "walk", "seed", "returned"}
    /\ sret # "none" =>
          /\ DOMAIN sindex = {CidAt(i) : i \in 1..(spos - 1)} \ {NoId}
          /\ Len(sstems) = Cardinality({i \in 1..(spos - 1) : CidAt(i) # NoId})
          /\ \A i \in 1..(spos - 1) :
                CidAt(i) # NoId =>
                    /\ \E j \in 1..Len(sstems) : sstems[j] = sfiles[i].stem
                    /\ IF sfiles[i].ext = "mp3"
                       THEN sindex[CidAt(i)].mp3 # Nil
                       ELSE sindex[CidAt(i)].flac # Nil
    /\ (sret \in {"seed", "returned"} /\ ~sglob) => spos = Len(sfiles) + 1

\* a scan returned after an unreadable first file, with the second file, a
\* text frame from which the identifier is cut out, in the index
C17_Witness ==
    /\ sret = "returned"
    /\ ~sglob
    /\ Len(sfiles) = 2
    /\ sfiles[1].hdr = "corrupt"
    /\ sfiles[2].frames = mp3InvalidUrl
    /\ DOMAIN sindex = {"b"}
    /\ sindex["b"].base = sfiles[2].stem
    /\ sstems = <<sfiles[2].stem>>

\* the UUIDs a text holds, in order
UuidsOf(txt) == SelectSeq(txt, LAMBDA t : t \in Ids)

\* the identifier C24 calls for: the URL "ID" frame's value when the whole
\* of it is a UUID, else the first UUID in the text "ID" frame, else the
\* first UUID in the composer frame, else none
ExpectedMp3Id(f) ==
    IF f.hdr # "ok" THEN NoId
    ELSE LET fr == f.frames
             urls == {strip(fr[k][1]) : k \in (DOMAIN fr) \cap WxxxIdKeys}
             whole == {u \in urls : Len(u) = 1 /\ u[1] \in Ids}
             texts == {UuidsOf(JoinWith(<<" ">>, fr[k])) :
                          k \in (DOMAIN fr) \cap TxxxIdKeys} \ {<<>>}
             legacy == IF "TCOM" \in DOMAIN fr
                       THEN UuidsOf(JoinWith(<<" ">>, fr["TCOM"])) ELSE <<>>
         IN  IF whole # {} THEN (CHOOSE u \in whole : TRUE)[1]
             ELSE IF texts # {} THEN (CHOOSE t \in texts : TRUE)[1]
             ELSE IF legacy # <<>> THEN legacy[1]
             ELSE NoId

\* the identifier the index should hold for the file at position i
WantedAt(i) ==
    IF sfiles[i].ext = "mp3" THEN ExpectedMp3Id(sfiles[i])
    ELSE flac_extract_clip_id(sfiles[i], flac_available)

\* C24: from an MP3 the scan takes the URL "ID" frame's value when that
\* whole value is a UUID, otherwise the first UUID in the text "ID" frame,
\* otherwise the first UUID in the legacy composer frame, otherwise nothing;
\* the composer frame counts only when neither "ID" frame yields one, and
\* every key of the identity index is a UUID.
C24_ExtractionOrder ==
    sret # "none" =>
        /\ DOMAIN sindex \subseteq Ids
        /\ DOMAIN sindex = {WantedAt(i) : i \in 1..(spos - 1)} \ {NoId}
        /\ \A i \in 1..(spos - 1) :
              (sfiles[i].ext = "mp3" /\ WantedAt(i) # NoId) =>
                  sindex[WantedAt(i)].mp3 # Nil
        /\ Len(sstems) = Cardinality({i \in 1..(spos - 1) : WantedAt(i) # NoId})

\* C24 witness: a scan returned the URL frame's identifier for a file that
\* carries three different ones, and the text frame's first identifier for
\* a file whose URL frame is no UUID and that has one in the composer frame.
C24_Witness ==
    /\ sret = "returned"
    /\ Len(sfiles) = 2
    /\ sfiles[1].frames = mp3ThreeIds
    /\ sfiles[2].frames = mp3InvalidUrl
    /\ DOMAIN sindex = {"z", "b"}
    /\ sindex["z"].base = <<"M">>
    /\ sindex["b"].base = sfiles[2].stem

\* the seed C25 calls for: per raw the largest n over every listed file
\* whose stem is "<raw> V<n>", no entry for other raws
SeedOverEveryFile ==
    LET hits == {i \in 1..Len(sfiles) : MverMatches(sfiles[i].stem)}
        raws == {MverRaw(sfiles[i].stem) : i \in hits}
    IN  [raw \in raws |->
            Max({MverVersion(sfiles[i].stem) :
                    i \in {j \in hits : MverRaw(sfiles[j].stem) = raw}})]

\* C25 (as stated): the version seed the scan returns holds, for each raw
\* title, the largest n over every MP3 and FLAC file of the directory whose
\* stem is "<raw> V<n>", and no entry for a raw title without such a file
\* (FLAC support present, the directory listed without error).
C25_SeedCoversEveryAudioFile ==
    (sret = "returned" /\ ~sglob /\ flac_available) =>
        sseed = <<SeedOverEveryFile>>

(***************************************************************************)
(* Claims about the per-clip processing of the worker (Spec, SpecRun).     *)
(***************************************************************************)
\* the worker stands before the clip at idx in the processing loop
AtClip == pc = "proc" /\ idx <= Len(clips)

\* C18: a failure while tagging one clip is confined to it: while clips of
\* the batch remain after the current one, every step of the processing
\* loop, failing or not, passes on to the next clip of the same batch.
C18_NextClipAfterEveryStep ==
    [][(AtClip /\ idx < Len(clips)) =>
          (pc' = "proc" /\ clips' = clips /\ idx' = idx + 1)]_vars

\* C19: a clip whose identifier the scan found in an MP3 or a FLAC of the
\* folder is not downloaded as MP3 in that run.
C19_IndexedClipIsNotDownloaded ==
    [][(AtClip /\ InIndex(clips[idx].id, existing_by_id)) => "mp3" \notin did']_vars

\* the names of the files in a folder
FileNames(d) == {<<f.stem, f.ext>> : f \in d}

\* C20: no step of a Retag Only run downloads an MP3, a WAV, artwork or a
\* text file, queues a WAV job or rewrites tags in full; it creates no file
\* in the Audio folder and at most fills identifier tags, whatever the
\* other toggles are.
C20_RetagOnlyFillsIdentifiersOnly ==
    [][mode.retag_only =>
          /\ did' \subseteq {"fill"}
          /\ wav_jobs' = {}
          /\ FileNames(dir') = FileNames(dir)]_vars

\* a Retag Only run with every other toggle on has passed a clip whose MP3
\* is missing while its FLAC is there, and has only filled tags
C20_Witness ==
    /\ mode.retag_only
    /\ mode.do_audio
    /\ mode.do_wav
    /\ mode.do_text
    /\ pc = "proc"
    /\ idx = 2
    /\ did = {"fill"}
    /\ clips[1].id # NoId
    /\ ~Exists(dir, clips[1].index_title, "mp3")
    /\ Exists(dir, clips[1].index_title, "flac")
    /\ wav_jobs = {}


(***************************************************************************)
(* Claims about Pause, Stop and the phases of the run (SpecCtl).           *)
(***************************************************************************)
\* the worker is in the loop over the WAV jobs
WavPhase == cpc \in {"wav", "wavpage", "wavtag"}

\* the entries of the log of a kind
Events(kinds) == {i \in 1..Len(clog) : clog[i].ev \in kinds}

\* line l is through the processing loop: it failed, or each of its clips
\* was processed
LineThrough(l) ==
    \/ \E i \in Events({"line_error"}) : clog[i].line = l
    \/ \A k \in 1..Len(ClipsOf(lines[l])) :
          \E i \in Events({"clip"}) :
              /\ clog[i].line = l
              /\ clog[i].id = ClipsOf(lines[l])[k].id

\* C21: no WAV download starts before the clips of every input line are
\* processed and the playlist and master indexes of the run are updated:
\* in the WAV phase every line is through, every index update the run makes
\* is in the log, and every WAV save comes after every clip, index and
\* error entry; each WAV is saved under the stem of the clip's MP3.
C21_WavAfterEverythingElse ==
    /\ WavPhase =>
          /\ line_i = Len(lines) + 1
          /\ \A l \in 1..Len(lines) : LineThrough(l)
          /\ copts.index =>
                /\ \A l \in 1..Len(lines) :
                      \E i \in Events({"plindex", "line_error"}) : clog[i].line = l
                /\ all_clips > 0 => Events({"master"}) # {}
    /\ \A i \in Events({"wav"}) :
          /\ \A j \in Events({"clip", "plindex", "master", "line_error"}) : j < i
          /\ \E j \in Events({"clip"}) :
                /\ clog[j].id = clog[i].id
                /\ clog[j].stem = clog[i].stem
    /\ \A f \in cfiles :
          f.ext = "wav" => \E i \in Events({"wav"}) : clog[i].stem = f.stem

\* C21 witness: a run of two lines with both indexes updated ended after
\* saving the WAVs of two clips next to their MP3s.
C21_Witness ==
    /\ cpc = "done"
    /\ Len(lines) = 2
    /\ Cardinality(Events({"plindex"})) = 2
    /\ Events({"master"}) # {}
    /\ {[stem |-> "A V1", ext |-> e] : e \in {"mp3", "wav"}} \subseteq cfiles
    /\ {[stem |-> "B V1", ext |-> e] : e \in {"mp3", "wav"}} \subseteq cfiles

\* the end of a tag write or RIFF rewrite in progress
WriteEnds == TagEnd \/ WavTagEnd

\* C27: the worker reads the stop and pause flags only where no tag write
\* or RIFF rewrite is in progress; a write that has started ends, by
\* completion or error, whatever the flags are in the meantime.
C27_WritesRunToTheirEnd ==
    /\ cobs \cap {"tagging", "wavtag"} = {}
    /\ cpc \in {"tagging", "wavtag"} => ENABLED WriteEnds

\* C27 witness: the tagging of a saved WAV came to its end with Stop
\* requested and Pause pressed after it during the write.
C27_Witness ==
    /\ cdid = "flagged_tagged"
    /\ clog # <<>>
    /\ clog[Len(clog)].ev = "wav"
    /\ stop_event
    /\ pause_event

\* the worker passes the check at the top of the clip loop
ClipStarts == cpc = "clip" /\ (cpc' = "tagging" \/ Len(clog') > Len(clog))

\* C28: once Stop is requested while the worker runs, whatever is pressed
\* afterwards and even if the worker was paused, the worker ends; while
\* paused without a stop request it starts no clip.
C28_StopEndsTheRun ==
    /\ (Alive /\ stop_event) ~> (cpc \in {"done", "fatal"})
    /\ [][(pause_event /\ ~stop_event) => ~ClipStarts]_vars

\* C28 witness: Stop was pressed while the worker was paused and the run
\* ended with the second line never taken up.
C28_Witness ==
    /\ cpc = "done"
    /\ pressed
    /\ stop_event
    /\ Len(lines) = 2
    /\ Events({"clip"}) # {}
    /\ \A i \in 1..Len(clog) : clog[i].line # 2

\* C29 (as stated): a line that cannot be resolved is logged and the other
\* lines of the run are processed: a run that was not stopped and whose
\* master index did not fail ends with every resolvable line processed, and
\* the worker never ends in the fatal path because of a line.
C29_BadLineDoesNotEndTheRun ==
    \A l \in 1..Len(lines) :
        (/\ lines[l] \in {"pl", "song"}
         /\ cpc \in {"done", "fatal"}
         /\ ~stop_event
         /\ Events({"master_error"}) = {}) =>
            /\ cpc = "done"
            /\ LineThrough(l)
            /\ Events({"count_error"}) = {}

====
